---- MODULE Spec2Model ----
(***************************************************************************)
(* Model of the import reconciliation flow of brewbindr (src/App.tsx):     *)
(* the React state of AppContent that the flow reads and writes, the       *)
(* handlers startImportFlow, processQueue, linkIngredientsToLibrary and    *)
(* resolveConflict, and the asynchronous steps (FileReader load, demo      *)
(* fetch, zero-delay timers) that connect them.                            *)
(*                                                                         *)
(* Representation:                                                         *)
(*  - a name is a sequence of one-character strings, so that toLowerCase   *)
(*    and the " (Copy)" suffix are computed, not assumed;                  *)
(*  - ids are naturals: the ids 'g1','h1','y1','m1' of EXAMPLES are 1..4   *)
(*    and every Math.random() id is the next unused natural (nextId);      *)
(*  - fractional numbers are scaled to integers: colours, alpha and        *)
(*    attenuation in tenths, yield potential in units of 0.00001;          *)
(*  - a handler is one action: the setState calls of one handler are       *)
(*    batched, the last write to a state variable wins. The handlers       *)
(*    thread a record st of the state variables through their code.        *)
(***************************************************************************)
EXTENDS Integers, Sequences, FiniteSets, TLC

VARIABLES
    recipes,            \* useState<Recipe[]>                      App.tsx:76
    library,            \* useState<LibraryIngredient[]>           App.tsx:79
    importStatus,       \* useState<ImportStatus>                  App.tsx:89
    importQueue,        \* useState<{type, data}[]>                App.tsx:90
    currentDuplicate,   \* useState<{type, data} | null>           App.tsx:91
    timers,             \* pending setTimeout(() => processQueue(..), 0) calls
    inflight,           \* pending FileReader load / demo fetch with its closure
    nextId,             \* the next id Math.random() produces
    queued,             \* number of items queued so far (bounded by MaxQueued)
    batch,              \* history: the queue built by the last startImportFlow
    startLib,           \* history: the library the last startImportFlow was given
    log,                \* history: what the flow did to each item of batch
    statusLog,          \* history: the setImportStatus calls of the last handler
    alerts,             \* history: the alert() texts of the last handler
    started,            \* history: the length of the queue startImportFlow built
                        \* in the last handler, NoFlow if it was not called
    saves,              \* number of saves in the recipe editor and the
                        \* ingredient library so far (bounded by MaxSaves)
    xmlDoc,             \* the document DOMParser.parseFromString returned
    xmlResult,          \* the BeerXmlImportResult parseBeerXml returned for xmlDoc
    exported,           \* the recipe or the library handed to the BeerXML export
    xmlText,            \* the text the BeerXML export returned for exported
    brewLogs,           \* useState<BrewLogEntry[]>                App.tsx:77
    tastingNotes,       \* useState<TastingNote[]>                 App.tsx:78
    backup,             \* the backup file handleExportData wrote
    saved,              \* history: the four collections when backup was written
    calcIn,             \* the arguments handed to a function of calculations.ts
    calcOut,            \* what the function returned for calcIn, <<>> before the call
    remote,             \* what the pending supabaseService.fetchAppData of
                        \* loadData will return, Null when no load is pending
    entry,              \* useState<BrewLogEntry> of BrewLog     part_003:18
    activeTab           \* useState<'brew' | ...> of BrewLog     part_003:15

vars == <<recipes, library, importStatus, importQueue, currentDuplicate,
          timers, inflight, nextId, queued, batch, startLib, log, statusLog,
          alerts, started, saves, xmlDoc, xmlResult, exported, xmlText,
          brewLogs, tastingNotes, backup, saved, calcIn, calcOut, remote,
          entry, activeTab>>

\* the variables that the import flow, the recipe editor and the ingredient
\* library leave alone
restVars == <<xmlDoc, xmlResult, exported, xmlText, brewLogs, tastingNotes,
              backup, saved, calcIn, calcOut, remote, entry, activeTab>>

\* the variables of the calculations
calcVars == <<calcIn, calcOut>>

\* the variables of the BrewLog component
brewVars == <<entry, activeTab>>

\* the variables of the backup
backupVars == <<brewLogs, tastingNotes, backup, saved>>

\* the variables of the BeerXML export and import
xmlVars == <<xmlDoc, xmlResult, exported, xmlText>>

\* the variables of the application state and of the import flow
appVars == <<recipes, library, importStatus, importQueue, currentDuplicate,
             timers, inflight, nextId, queued, batch, startLib, log,
             statusLog, alerts, started, saves>>

-----------------------------------------------------------------------------
(* Bounds *)

\* the imports of one behaviour queue at most MaxQueued items in total
MaxQueued == 3

\* a behaviour has at most MaxSaves saves of the recipe editor and of the
\* ingredient library
MaxSaves == 2

\* the largest number of elements below the root of a document
MaxNodes == 2

\* the largest number of fermentables and of hops of an exported recipe
MaxIngredients == 1

\* the largest number of recipes in a backup
MaxRecipes == 1

\* the largest number of fermentables and of hops of a recipe handed to
\* calculateRecipeStats
MaxAdditions == 2

-----------------------------------------------------------------------------
(* Values *)

Null == [type |-> "null"]

NoId == 0

NoFlow == -1

User == "u1"

ImportStatus == {"idle", "fetching", "parsing", "resolving"}

UpperCase ==
    <<"A", "B", "C", "D", "E", "F", "G", "H", "I", "J", "K", "L", "M",
      "N", "O", "P", "Q", "R", "S", "T", "U", "V", "W", "X", "Y", "Z">>

LowerCase ==
    <<"a", "b", "c", "d", "e", "f", "g", "h", "i", "j", "k", "l", "m",
      "n", "o", "p", "q", "r", "s", "t", "u", "v", "w", "x", "y", "z">>

LowerChar(c) ==
    IF \E i \in DOMAIN UpperCase : UpperCase[i] = c
    THEN LowerCase[CHOOSE i \in DOMAIN UpperCase : UpperCase[i] = c]
    ELSE c

toLowerCase(name) == [i \in 1..Len(name) |-> LowerChar(name[i])]

CopySuffix == <<" ", "(", "C", "o", "p", "y", ")">>

\* { ...a, ...b }
Spread(a, b) ==
    [k \in (DOMAIN a) \cup (DOMAIN b) |-> IF k \in DOMAIN b THEN b[k] ELSE a[k]]

\* Array.prototype.slice(1)
slice1(q) == IF Len(q) = 0 THEN <<>> ELSE Tail(q)

MinOf(S) == CHOOSE x \in S : \A y \in S : x <= y

\* Pilsner Malt = <<"P">>, Cascade = <<"C">>, US-05 SafAle = <<"U">>,
\* Single Infusion (67C) = <<"S">>
EXAMPLES ==
    << [id |-> 1, name |-> <<"P">>, type |-> "fermentable", color |-> 16, yield |-> 80],
       [id |-> 2, name |-> <<"C">>, type |-> "hop", alpha |-> 55],
       [id |-> 3, name |-> <<"U">>, type |-> "culture", form |-> "dry", attenuation |-> 780],
       [id |-> 4, name |-> <<"S">>, type |-> "mash_profile", grain_temp |-> 0] >>

FirstId == 5

-----------------------------------------------------------------------------
(* The documents an import can deliver (results of parseBeerXml) *)

\* RECIPE elements; the id is assigned when the result is delivered
RecipeDocs ==
    { [name |-> <<"R">>,
       ingredients |-> [fermentables |-> << [name |-> <<"p">>, color |-> 0, potential |-> 103700] >>,
                        hops |-> <<>>,
                        cultures |-> <<>>]],
      [name |-> <<"r">>,
       ingredients |-> [fermentables |-> << [name |-> <<"Q">>, color |-> 30, potential |-> 103700],
                                            [name |-> <<"q">>, color |-> 40, potential |-> 104600] >>,
                        hops |-> << [name |-> <<"Q">>, alpha_acid |-> 0] >>,
                        cultures |-> << [name |-> <<"u">>, form |-> "liquid", attenuation |-> 750] >>]] }

MashDocs ==
    { [name |-> <<"S">>, type |-> "mash_profile", grain_temp |-> 20],
      [name |-> <<"s">>, type |-> "mash_profile", grain_temp |-> 30],
      [name |-> <<"S">> \o CopySuffix, type |-> "mash_profile", grain_temp |-> 20] }

StyleDocs ==
    { [name |-> <<"A">>, type |-> "style", category |-> "ale"],
      [name |-> <<"a">>, type |-> "style", category |-> "lager"] }

MiscDocs == { [name |-> <<"A">>, type |-> "misc", misc_type |-> "spice"] }

Lengths(n) ==
    { t \in (0..n) \X (0..n) \X (0..n) \X (0..n) : t[1] + t[2] + t[3] + t[4] <= n }

\* parseBeerXml fills recipes, styles, miscs and mashes; fermentables, hops
\* and cultures are created empty and never pushed to. ImportResults(n) are
\* the results with at most n elements.
ImportResults(n) ==
    UNION { [recipes : [1..t[1] -> RecipeDocs],
             fermentables : {<<>>}, hops : {<<>>}, cultures : {<<>>},
             mashes : [1..t[2] -> MashDocs],
             styles : [1..t[3] -> StyleDocs],
             miscs : [1..t[4] -> MiscDocs]] : t \in Lengths(n) }

\* id: Math.random() of the RECIPE loop, numbered from nid
WithIds(rs, nid) == [i \in 1..Len(rs) |-> Spread(rs[i], [id |-> nid + i - 1])]

-----------------------------------------------------------------------------
(* The state record threaded through a handler *)

State ==
    [recipes |-> recipes, library |-> library, importStatus |-> importStatus,
     importQueue |-> importQueue, currentDuplicate |-> currentDuplicate,
     timers |-> timers, nextId |-> nextId, batch |-> batch,
     startLib |-> startLib, log |-> log, statusLog |-> <<>>,
     alerts |-> <<>>, started |-> NoFlow]

Apply(st) ==
    /\ recipes' = st.recipes
    /\ library' = st.library
    /\ importStatus' = st.importStatus
    /\ importQueue' = st.importQueue
    /\ currentDuplicate' = st.currentDuplicate
    /\ timers' = st.timers
    /\ nextId' = st.nextId
    /\ batch' = st.batch
    /\ startLib' = st.startLib
    /\ log' = st.log
    /\ statusLog' = st.statusLog
    /\ alerts' = st.alerts
    /\ started' = st.started
    /\ UNCHANGED restVars

alert(st, text) == [st EXCEPT !.alerts = Append(@, text)]

setImportStatus(st, status) ==
    [st EXCEPT !.importStatus = status, !.statusLog = Append(@, status)]

\* position in batch of the head of a queue that is a suffix of batch
Pos(st, q) == Len(st.batch) - Len(q) + 1

\* the log entry of item Head(q): what was done, and the id given to the
\* library entry or recipe it inserted (NoId when it inserted none)
Logged(st, op, q, id) ==
    [st EXCEPT !.log = Append(@, [op |-> op, idx |-> Pos(st, q), id |-> id])]

-----------------------------------------------------------------------------
(* linkIngredientsToLibrary *)

Round(num, den) == (2 * num + den) \div (2 * den)

Props(type, ing) ==
    CASE type = "fermentable" ->
            [color |-> IF ing.color # 0 THEN ing.color ELSE 20,
             yield |-> IF ing.potential # 0
                          THEN Round(ing.potential - 100000, 46)
                          ELSE 75]
      [] type = "hop" ->
            [alpha |-> IF ing.alpha_acid # 0 THEN ing.alpha_acid ELSE 50]
      [] type = "culture" ->
            [attenuation |-> IF ing.attenuation # 0 THEN ing.attenuation ELSE 750,
             form |-> IF ing.form # "" THEN ing.form ELSE "dry"]

\* as getLibId, finding the existing entry by its name alone
getLibId_anyType(name, type, props, tempLib, nid) ==
    LET existing == { i \in DOMAIN tempLib :
                        toLowerCase(tempLib[i].name) = toLowerCase(name) }
    IN  IF existing # {}
        THEN [id |-> tempLib[MinOf(existing)].id, lib |-> tempLib, nid |-> nid]
        ELSE [id |-> nid,
              lib |-> Append(tempLib,
                        Spread([id |-> nid, name |-> name, type |-> type, user_id |-> User],
                               props)),
              nid |-> nid + 1]

getLibId(name, type, props, tempLib, nid) ==
    LET existing == { i \in DOMAIN tempLib :
                        /\ tempLib[i].type = type
                        /\ toLowerCase(tempLib[i].name) = toLowerCase(name) }
    IN  IF existing # {}
        THEN [id |-> tempLib[MinOf(existing)].id, lib |-> tempLib, nid |-> nid]
        ELSE [id |-> nid,
              lib |-> Append(tempLib,
                        Spread([id |-> nid, name |-> name, type |-> type, user_id |-> User],
                               props)),
              nid |-> nid + 1]

RECURSIVE linkAll(_, _, _, _, _)
linkAll(items, type, tempLib, nid, done) ==
    IF items = <<>>
    THEN [items |-> done, lib |-> tempLib, nid |-> nid]
    ELSE LET r == getLibId(Head(items).name, type, Props(type, Head(items)), tempLib, nid)
         IN  linkAll(Tail(items), type, r.lib, r.nid,
                     Append(done, Spread(Head(items), [libraryId |-> r.id])))

linkIngredientsToLibrary(recipe, tempLib, nid) ==
    LET f == linkAll(recipe.ingredients.fermentables, "fermentable", tempLib, nid, <<>>)
        h == linkAll(recipe.ingredients.hops, "hop", f.lib, f.nid, <<>>)
        c == linkAll(recipe.ingredients.cultures, "culture", h.lib, h.nid, <<>>)
    IN  [recipe |-> Spread(recipe,
                     [ingredients |-> Spread(recipe.ingredients,
                         [fermentables |-> f.items, hops |-> h.items, cultures |-> c.items])]),
         lib |-> c.lib,
         nid |-> c.nid]

-----------------------------------------------------------------------------
(* processQueue *)

\* as isDuplicate, but a library item is looked up among the recipes
isDuplicate_recipesOnly(next, currentRecipes, currentLib) ==
    \E i \in DOMAIN currentRecipes :
        toLowerCase(currentRecipes[i].name) = toLowerCase(next.data.name)

isDuplicate(next, currentRecipes, currentLib) ==
    IF next.type = "recipe"
    THEN \E i \in DOMAIN currentRecipes :
            toLowerCase(currentRecipes[i].name) = toLowerCase(next.data.name)
    ELSE \E i \in DOMAIN currentLib :
            /\ toLowerCase(currentLib[i].name) = toLowerCase(next.data.name)
            /\ currentLib[i].type = next.data.type

\* as newItem, with one and the same id for every item
newItem_sameId(data, nid) == Spread(data, [id |-> FirstId, user_id |-> User])

\* { ...next.data, id: Math.random()..., user_id: user?.id }
newItem(data, nid) == Spread(data, [id |-> nid, user_id |-> User])

\* setTimeout(() => processQueue(q, rs, lib), 0)
setTimeout(st, q, rs, lib) ==
    [st EXCEPT !.timers = Append(@, [queue |-> q, recipes |-> rs, lib |-> lib])]

\* as commit, but the next processQueue call gets the collections the step
\* started from instead of newRecipes and newLib
commit_stale(next, currentQueue, currentRecipes, currentLib, st) ==
    LET linked == linkIngredientsToLibrary(next.data, currentLib, st.nextId)
        newRecipes == IF next.type = "recipe"
                      THEN Append(currentRecipes, Spread(linked.recipe, [user_id |-> User]))
                      ELSE currentRecipes
        newLib == IF next.type = "recipe"
                  THEN linked.lib
                  ELSE Append(currentLib, newItem(next.data, st.nextId))
        nid == IF next.type = "recipe" THEN linked.nid ELSE st.nextId + 1
        nextQ == slice1(currentQueue)
        st1 == [Logged(st, "commit", currentQueue,
                       IF next.type = "recipe" THEN next.data.id ELSE st.nextId) EXCEPT
                    !.recipes = newRecipes,
                    !.library = newLib,
                    !.importQueue = nextQ,
                    !.nextId = nid]
    IN  setTimeout(st1, nextQ, currentRecipes, currentLib)

\* as commit, but the committed item stays at the head of the queue
commit_requeue(next, currentQueue, currentRecipes, currentLib, st) ==
    LET linked == linkIngredientsToLibrary(next.data, currentLib, st.nextId)
        newRecipes == IF next.type = "recipe"
                      THEN Append(currentRecipes, Spread(linked.recipe, [user_id |-> User]))
                      ELSE currentRecipes
        newLib == IF next.type = "recipe"
                  THEN linked.lib
                  ELSE Append(currentLib, newItem(next.data, st.nextId))
        nid == IF next.type = "recipe" THEN linked.nid ELSE st.nextId + 1
        st1 == [Logged(st, "commit", currentQueue,
                       IF next.type = "recipe" THEN next.data.id ELSE st.nextId) EXCEPT
                    !.recipes = newRecipes,
                    !.library = newLib,
                    !.importQueue = currentQueue,
                    !.nextId = nid]
    IN  setTimeout(st1, currentQueue, newRecipes, newLib)

commit(next, currentQueue, currentRecipes, currentLib, st) ==
    LET linked == linkIngredientsToLibrary(next.data, currentLib, st.nextId)
        newRecipes == IF next.type = "recipe"
                      THEN Append(currentRecipes, Spread(linked.recipe, [user_id |-> User]))
                      ELSE currentRecipes
        newLib == IF next.type = "recipe"
                  THEN linked.lib
                  ELSE Append(currentLib, newItem(next.data, st.nextId))
        nid == IF next.type = "recipe" THEN linked.nid ELSE st.nextId + 1
        nextQ == slice1(currentQueue)
        st1 == [Logged(st, "commit", currentQueue,
                       IF next.type = "recipe" THEN next.data.id ELSE st.nextId) EXCEPT
                    !.recipes = newRecipes,
                    !.library = newLib,
                    !.importQueue = nextQ,
                    !.nextId = nid]
    IN  setTimeout(st1, nextQ, newRecipes, newLib)

\* as expose, and the rest of the queue is resumed by a timer
expose_timeout(next, currentQueue, st) ==
    setTimeout([Logged(st, "conflict", currentQueue, NoId) EXCEPT !.currentDuplicate = next],
               slice1(currentQueue), st.recipes, st.library)

\* as expose, and the exposed item is taken off the queue
expose_dequeue(next, currentQueue, st) ==
    [Logged(st, "conflict", currentQueue, NoId) EXCEPT
        !.currentDuplicate = next,
        !.importQueue = slice1(currentQueue)]

\* setCurrentDuplicate(next)
expose(next, currentQueue, st) ==
    [Logged(st, "conflict", currentQueue, NoId) EXCEPT !.currentDuplicate = next]

\* as processQueue, with the conflict dialog for duplicate recipes too
processQueue_prompt(currentQueue, currentRecipes, currentLib, st) ==
    IF Len(currentQueue) = 0
    THEN setImportStatus(st, "idle")
    ELSE LET next == currentQueue[1] IN
         IF isDuplicate(next, currentRecipes, currentLib)
         THEN expose(next, currentQueue, st)
         ELSE commit(next, currentQueue, currentRecipes, currentLib, st)

RECURSIVE processQueue(_, _, _, _)
processQueue(currentQueue, currentRecipes, currentLib, st) ==
    IF Len(currentQueue) = 0
    THEN setImportStatus(st, "idle")
    ELSE LET next == currentQueue[1] IN
         IF isDuplicate(next, currentRecipes, currentLib)
         THEN IF next.type = "recipe"
              THEN LET nextQ == slice1(currentQueue) IN
                   processQueue(nextQ, currentRecipes, currentLib,
                       [Logged(st, "silent", currentQueue, NoId) EXCEPT !.importQueue = nextQ])
              ELSE expose(next, currentQueue, st)
         ELSE commit(next, currentQueue, currentRecipes, currentLib, st)

-----------------------------------------------------------------------------
(* startImportFlow *)

Tag(items, type) == [i \in 1..Len(items) |-> [type |-> type, data |-> items[i]]]

Retype(items, type) == [i \in 1..Len(items) |-> Spread(items[i], [type |-> type])]

buildQueue(result) ==
    Tag(result.recipes, "recipe")
      \o Tag(Retype(result.fermentables, "fermentable"), "library")
      \o Tag(Retype(result.hops, "hop"), "library")
      \o Tag(Retype(result.cultures, "culture"), "library")
      \o Tag(Retype(result.mashes, "mash_profile"), "library")
      \o Tag(Retype(result.styles, "style"), "library")
      \o Tag(Retype(result.miscs, "misc"), "library")

NoDataFound == "No data found in the selected files."

\* as startImportFlow, without the if (queue.length === 0) branch
startImportFlow_noCheck(result, closure, st) ==
    LET queue == buildQueue(result) IN
    processQueue(queue, closure.recipes, closure.library,
        setImportStatus([st EXCEPT !.importQueue = queue,
                                   !.started = Len(queue),
                                   !.batch = queue,
                                   !.startLib = closure.library,
                                   !.log = <<>>],
                        "resolving"))

\* closure: the recipes and library of the render that created the handler
startImportFlow(result, closure, st) ==
    LET queue == buildQueue(result) IN
    IF Len(queue) = 0
    THEN setImportStatus(alert([st EXCEPT !.started = 0], NoDataFound), "idle")
    ELSE processQueue(queue, closure.recipes, closure.library,
            setImportStatus([st EXCEPT !.importQueue = queue,
                                       !.started = Len(queue),
                                       !.batch = queue,
                                       !.startLib = closure.library,
                                       !.log = <<>>],
                            "resolving"))

-----------------------------------------------------------------------------
(* resolveConflict *)

\* as overwriteLib, matching on the name alone
overwriteLib_nameOnly(lib, dup) ==
    [i \in 1..Len(lib) |->
        IF toLowerCase(lib[i].name) = toLowerCase(dup.data.name)
        THEN Spread(dup.data, [id |-> lib[i].id, user_id |-> User])
        ELSE lib[i]]

overwriteLib(lib, dup) ==
    [i \in 1..Len(lib) |->
        IF /\ toLowerCase(lib[i].name) = toLowerCase(dup.data.name)
           /\ lib[i].type = dup.data.type
        THEN Spread(dup.data, [id |-> lib[i].id, user_id |-> User])
        ELSE lib[i]]

copyName(name) == name \o CopySuffix

copyItem(data, nid) ==
    Spread(data, [name |-> copyName(data.name), id |-> nid, user_id |-> User])

\* as cancelImport, without setImportQueue([])
cancelImport_keepQueue(st) ==
    setImportStatus([Logged(st, "cancel", st.importQueue, NoId) EXCEPT
                        !.currentDuplicate = Null],
                    "idle")

\* if (action === 'cancel') { ... return; }
cancelImport(st) ==
    setImportStatus([Logged(st, "cancel", st.importQueue, NoId) EXCEPT
                        !.importQueue = <<>>,
                        !.currentDuplicate = Null],
                    "idle")

\* the overwrite branch for a recipe: recipes.map(r => r.name.toLowerCase() ===
\* linked.name.toLowerCase() ? { ...linked, id: r.id, user_id } : r)
overwriteRecipe(linked, st) ==
    [recipes |->
        [i \in 1..Len(st.recipes) |->
            IF toLowerCase(st.recipes[i].name) = toLowerCase(linked.recipe.name)
            THEN Spread(linked.recipe, [id |-> st.recipes[i].id, user_id |-> User])
            ELSE st.recipes[i]],
     lib |-> linked.lib, nid |-> linked.nid, id |-> NoId]

\* the copy branch for a recipe: the linked copy is pushed with a new id
copyRecipe(linked, st) ==
    [recipes |-> Append(st.recipes,
                    Spread(linked.recipe, [id |-> linked.nid, user_id |-> User])),
     lib |-> linked.lib, nid |-> linked.nid + 1, id |-> linked.nid]

\* the overwrite and copy branches for a library item
overwriteItem(dup, st) ==
    [recipes |-> st.recipes, lib |-> overwriteLib(st.library, dup),
     nid |-> st.nextId, id |-> NoId]

copyLibItem(dup, st) ==
    [recipes |-> st.recipes,
     lib |-> Append(st.library, copyItem(dup.data, st.nextId)),
     nid |-> st.nextId + 1, id |-> st.nextId]

\* as updated, with a plain else where the code has else if (action === 'copy')
updated_elseCopies(action, st) ==
    LET dup == st.currentDuplicate IN
    IF action = "overwrite"
    THEN IF dup.type = "recipe"
         THEN overwriteRecipe(
                  linkIngredientsToLibrary(dup.data, st.library, st.nextId), st)
         ELSE overwriteItem(dup, st)
    ELSE IF TRUE
    THEN IF dup.type = "recipe"
         THEN copyRecipe(
                  linkIngredientsToLibrary(
                      Spread(dup.data, [name |-> copyName(dup.data.name)]),
                      st.library, st.nextId), st)
         ELSE copyLibItem(dup, st)
    ELSE [recipes |-> st.recipes, lib |-> st.library, nid |-> st.nextId, id |-> NoId]

\* updatedRecipes and updatedLib after the if / else if of resolveConflict,
\* with the next unused id and the id given to a copy. For a recipe,
\* linkIngredientsToLibrary pushes into updatedLib itself.
updated(action, st) ==
    LET dup == st.currentDuplicate IN
    IF action = "overwrite"
    THEN IF dup.type = "recipe"
         THEN overwriteRecipe(
                  linkIngredientsToLibrary(dup.data, st.library, st.nextId), st)
         ELSE overwriteItem(dup, st)
    ELSE IF action = "copy"
    THEN IF dup.type = "recipe"
         THEN copyRecipe(
                  linkIngredientsToLibrary(
                      Spread(dup.data, [name |-> copyName(dup.data.name)]),
                      st.library, st.nextId), st)
         ELSE copyLibItem(dup, st)
    ELSE [recipes |-> st.recipes, lib |-> st.library, nid |-> st.nextId, id |-> NoId]

resolveConflict(action, st) ==
    IF action = "cancel"
    THEN cancelImport(st)
    ELSE LET u == updated(action, st)
             nextQueue == slice1(st.importQueue)
             st1 == [Logged(st, action, st.importQueue, u.id) EXCEPT
                        !.recipes = u.recipes,
                        !.library = u.lib,
                        !.importQueue = nextQueue,
                        !.currentDuplicate = Null,
                        !.nextId = u.nid]
         IN  setTimeout(st1, nextQueue, u.recipes, u.lib)

-----------------------------------------------------------------------------
(* RecipeCreator.handleLibrarySelect, handleSaveRecipe, and
   IngredientLibrary.saveEditing with the onUpdate of App.tsx *)

Undefined == "undefined"

\* item.field, undefined when the item has no such field
Field(item, field) == IF field \in DOMAIN item THEN item[field] ELSE Undefined

\* item.field || dflt for a numeric field
OrElse(item, field, dflt) ==
    IF field \in DOMAIN item /\ item[field] # 0 THEN item[field] ELSE dflt

\* list[idx] = { ...list[idx], ...fields } on a copy of the list
SetAt(list, idx, fields) ==
    [i \in 1..(IF idx > Len(list) THEN idx ELSE Len(list)) |->
        IF i = idx
        THEN Spread(IF i \in DOMAIN list THEN list[i] ELSE <<>>, fields)
        ELSE IF i \in DOMAIN list THEN list[i] ELSE <<>>]

\* the draft recipe after handleLibrarySelect(type, idx, libId) on prev
handleLibrarySelect(type, idx, libId, prev, lib) ==
    LET found == { i \in DOMAIN lib : lib[i].id = libId } IN
    IF found = {} THEN prev ELSE
    LET item == lib[MinOf(found)]
        ing == prev.ingredients
    IN  CASE type = "style" ->
               Spread(prev, [style |-> [name |-> item.name,
                                        category |-> Field(item, "category"),
                                        libraryId |-> item.id]])
          [] type = "mash_profile" ->
               Spread(prev, [mash |-> [name |-> item.name,
                                       steps |-> IF "steps" \in DOMAIN item
                                                 THEN item.steps ELSE <<>>]])
          [] type = "fermentable" ->
               Spread(prev, [ingredients |-> Spread(ing, [fermentables |->
                   SetAt(ing.fermentables, idx,
                         [name |-> item.name, libraryId |-> item.id,
                          color |-> OrElse(item, "color", 20),
                          potential |-> 100000 + OrElse(item, "yield", 75) * 46])])])
          [] type = "hop" ->
               Spread(prev, [ingredients |-> Spread(ing, [hops |->
                   SetAt(ing.hops, idx,
                         [name |-> item.name, libraryId |-> item.id,
                          alpha_acid |-> OrElse(item, "alpha", 50)])])])
          [] type = "culture" ->
               Spread(prev, [ingredients |-> Spread(ing, [cultures |->
                   SetAt(ing.cultures, idx,
                         [name |-> item.name, libraryId |-> item.id,
                          type |-> item.type, form |-> Field(item, "form"),
                          attenuation |-> OrElse(item, "attenuation", 750)])])])
          [] type = "misc" ->
               Spread(prev, [ingredients |-> Spread(ing, [miscellaneous |->
                   SetAt(IF "miscellaneous" \in DOMAIN ing THEN ing.miscellaneous ELSE <<>>,
                         idx,
                         [name |-> item.name, libraryId |-> item.id,
                          type |-> IF Field(item, "misc_type") \in {Undefined, ""}
                                   THEN "spice" ELSE item.misc_type,
                          use |-> IF Field(item, "misc_use") \in {Undefined, ""}
                                  THEN "boil" ELSE item.misc_use])])])

\* the recipe list after handleSaveRecipe(recipe); selectedRecipe is Null
\* for a new recipe, whose id is nid
handleSaveRecipe(recipe, selectedRecipe, rs, nid) ==
    IF selectedRecipe # Null /\ "id" \in DOMAIN selectedRecipe
    THEN [i \in 1..Len(rs) |->
            IF rs[i].id = selectedRecipe.id
            THEN Spread(recipe, [id |-> selectedRecipe.id, user_id |-> User])
            ELSE rs[i]]
    ELSE Append(rs, Spread(recipe, [id |-> nid, user_id |-> User]))

\* the list saveEditing passes to onUpdate; nothing is passed when the name
\* of the form is empty
saveEditing(ingredients, editingId, editForm) ==
    IF editForm.name = <<>>
    THEN ingredients
    ELSE [i \in 1..Len(ingredients) |->
            IF ingredients[i].id = editingId
            THEN Spread(ingredients[i], editForm)
            ELSE ingredients[i]]

-----------------------------------------------------------------------------
(* parseBeerXml (src/services/beerXmlService.ts) on a DOM document.

   An element is a record [tag, text, children]; text is the character data
   directly in the element. A number is an integer count of millionths;
   NaN is the one value below zero (the documents hold no signs).           *)

NaN == -1

Micro == 1000000

Digits == <<"0", "1", "2", "3", "4", "5", "6", "7", "8", "9">>

IsDigit(c) == \E i \in DOMAIN Digits : Digits[i] = c

DigitVal(c) == (CHOOSE i \in DOMAIN Digits : Digits[i] = c) - 1

\* the number of leading digits of text
LeadDigits(text) ==
    CHOOSE n \in 0..Len(text) :
        /\ \A i \in 1..n : IsDigit(text[i])
        /\ n = Len(text) \/ ~IsDigit(text[n + 1])

RECURSIVE Pow10(_)
Pow10(n) == IF n = 0 THEN 1 ELSE 10 * Pow10(n - 1)

\* the value of a sequence of digits read as an integer
RECURSIVE IntOf(_)
IntOf(ds) ==
    IF ds = <<>> THEN 0 ELSE 10 * IntOf(SubSeq(ds, 1, Len(ds) - 1)) + DigitVal(ds[Len(ds)])

\* parseFloat: the longest prefix digits [ "." digits ] is read, what follows
\* is ignored, and without a digit the value is NaN. Digits beyond the sixth
\* decimal are dropped.
parseFloat(text) ==
    LET n == LeadDigits(text)
        rest == SubSeq(text, n + 1, Len(text))
        m == IF rest # <<>> /\ rest[1] = "." THEN LeadDigits(Tail(rest)) ELSE 0
        k == IF m > 6 THEN 6 ELSE m
    IN  IF n = 0 /\ m = 0
        THEN NaN
        ELSE IntOf(SubSeq(text, 1, n)) * Micro
               + IntOf(SubSeq(rest, 2, k + 1)) * Pow10(6 - k)

\* x || dflt for a number
OrNum(x, dflt) == IF x = 0 \/ x = NaN THEN dflt ELSE x

\* x * k for a number
Times(x, k) == IF x = NaN THEN NaN ELSE x * k

\* s || dflt for a string
OrText(t, dflt) == IF t = <<>> THEN dflt ELSE t

\* String.prototype.replace(" ", "_"): the first blank only
replaceBlank(t) ==
    LET at == { i \in DOMAIN t : t[i] = " " } IN
    IF at = {} THEN t ELSE [t EXCEPT ![MinOf(at)] = "_"]

El(tag, text, children) == [tag |-> tag, text |-> text, children |-> children]

\* the descendants of an element in document order, each with the tag of
\* its parent element
RECURSIVE DescOf(_, _)
DescOf(children, parentTag) ==
    IF children = <<>>
    THEN <<>>
    ELSE <<[el |-> Head(children), parent |-> parentTag]>>
           \o DescOf(Head(children).children, Head(children).tag)
           \o DescOf(Tail(children), parentTag)

SelectTag(ds, tag) ==
    LET at == { i \in DOMAIN ds : ds[i].el.tag = tag }
        F[i \in 0..Len(ds)] ==
            IF i = 0 THEN <<>>
            ELSE IF i \in at THEN Append(F[i - 1], ds[i]) ELSE F[i - 1]
    IN  F[Len(ds)]

getElementsByTagName(node, tag) == SelectTag(DescOf(node.children, node.tag), tag)

RECURSIVE textContent(_)
RECURSIVE textOfAll(_)
textOfAll(children) ==
    IF children = <<>> THEN <<>>
    ELSE textContent(Head(children)) \o textOfAll(Tail(children))

textContent(el) == el.text \o textOfAll(el.children)

getVal(el, tag) ==
    LET found == getElementsByTagName(el, tag) IN
    IF found = <<>> THEN <<>> ELSE textContent(found[1].el)

getNum(el, tag) == parseFloat(OrText(getVal(el, tag), <<"0">>))

\* a field that is left out when its value is undefined
Opt(field, value, present) == IF present THEN field :> value ELSE <<>>

Els(found) == [i \in 1..Len(found) |-> found[i].el]

OptNum(s, field, tag) == Opt(field, getNum(s, tag), OrNum(getNum(s, tag), 0) # 0)

parseMashStep(s) ==
    Spread(Spread(Spread(
        [name |-> getVal(s, "NAME"),
         type |-> OrText(toLowerCase(getVal(s, "TYPE")), <<"i", "n", "f", "u", "s", "i", "o", "n">>),
         step_temp |-> getNum(s, "STEP_TEMP"),
         step_time |-> getNum(s, "STEP_TIME"),
         description |-> getVal(s, "DESCRIPTION")],
        OptNum(s, "infuse_amount", "INFUSE_AMOUNT")),
        OptNum(s, "ramp_time", "RAMP_TIME")),
        OptNum(s, "end_temp", "END_TEMP"))

parseMashSteps(mashNode) ==
    LET stepNodes == Els(getElementsByTagName(mashNode, "MASH_STEP")) IN
    [i \in 1..Len(stepNodes) |-> parseMashStep(stepNodes[i])]

\* the elements of a list whose parent element has none of the tags
SkipParents(found, tags) ==
    LET F[i \in 0..Len(found)] ==
            IF i = 0 THEN <<>>
            ELSE IF found[i].parent \in tags THEN F[i - 1]
                 ELSE Append(F[i - 1], found[i].el)
    IN  F[Len(found)]

globalStyle(s) ==
    [name |-> getVal(s, "NAME"), type |-> "style",
     category |-> getVal(s, "CATEGORY"),
     og_min |-> getNum(s, "OG_MIN"), og_max |-> getNum(s, "OG_MAX"),
     fg_min |-> getNum(s, "FG_MIN"), fg_max |-> getNum(s, "FG_MAX"),
     ibu_min |-> getNum(s, "IBU_MIN"), ibu_max |-> getNum(s, "IBU_MAX"),
     color_min |-> getNum(s, "COLOR_MIN"), color_max |-> getNum(s, "COLOR_MAX"),
     abv_min |-> getNum(s, "ABV_MIN"), abv_max |-> getNum(s, "ABV_MAX")]

globalMisc(m) ==
    [name |-> getVal(m, "NAME"), type |-> "misc",
     misc_type |-> toLowerCase(getVal(m, "TYPE")),
     misc_use |-> toLowerCase(getVal(m, "USE"))]

mashOf(m) ==
    [name |-> getVal(m, "NAME"), steps |-> parseMashSteps(m),
     grain_temp |-> getNum(m, "GRAIN_TEMP"),
     sparge_temp |-> getNum(m, "SPARGE_TEMP"),
     ph |-> getNum(m, "PH"), notes |-> getVal(m, "NOTES")]

globalMash(m) == Spread(mashOf(m), [type |-> "mash_profile"])

recipeFermentable(f) ==
    [name |-> getVal(f, "NAME"), type |-> toLowerCase(getVal(f, "TYPE")),
     amount |-> [unit |-> "kilograms", value |-> getNum(f, "AMOUNT")],
     yield |-> [potential |-> [value |-> OrNum(getNum(f, "POTENTIAL"), 1037000)]],
     color |-> [value |-> getNum(f, "COLOR")]]

recipeHop(h) ==
    [name |-> getVal(h, "NAME"),
     amount |-> [unit |-> "grams", value |-> Times(getNum(h, "AMOUNT"), 1000)],
     alpha_acid |-> [value |-> getNum(h, "ALPHA")],
     use |-> OrText(replaceBlank(toLowerCase(getVal(h, "USE"))), <<"b", "o", "i", "l">>),
     time |-> [unit |-> "minutes", value |-> getNum(h, "TIME")]]

recipeMisc(m) ==
    [name |-> getVal(m, "NAME"), type |-> toLowerCase(getVal(m, "TYPE")),
     use |-> toLowerCase(getVal(m, "USE")),
     amount |-> [unit |-> "grams", value |-> Times(getNum(m, "AMOUNT"), 1000)],
     time |-> [unit |-> "minutes", value |-> getNum(m, "TIME")]]

recipeCulture(y) ==
    [name |-> getVal(y, "NAME"),
     type |-> OrText(toLowerCase(getVal(y, "TYPE")), <<"a", "l", "e">>),
     form |-> OrText(toLowerCase(getVal(y, "FORM")), <<"d", "r", "y">>),
     attenuation |-> OrNum(getNum(y, "ATTENUATION"), 75 * Micro)]

recipeStyle(styleNodes) ==
    Opt("style",
        [name |-> getVal(styleNodes[1], "NAME"),
         category |-> getVal(styleNodes[1], "CATEGORY")],
        styleNodes # <<>>)

recipeMash(mashNodes) == Opt("mash", mashOf(mashNodes[1]), mashNodes # <<>>)

MapEls(found, Op(_)) == [j \in 1..Len(found) |-> Op(found[j].el)]

recipeOf(r, id) ==
    Spread(Spread(
        [id |-> id,
         name |-> getVal(r, "NAME"),
         type |-> OrText(replaceBlank(toLowerCase(getVal(r, "TYPE"))),
                         <<"a", "l", "l", "_", "g", "r", "a", "i", "n">>),
         author |-> getVal(r, "BREWER"),
         notes |-> getVal(r, "NOTES"),
         batch_size |-> [unit |-> "liters", value |-> getNum(r, "BATCH_SIZE")],
         efficiency |-> [brewhouse |-> getNum(r, "EFFICIENCY")],
         boil_time |-> [unit |-> "minutes", value |-> getNum(r, "BOIL_TIME")],
         ingredients |->
            [fermentables |-> MapEls(getElementsByTagName(r, "FERMENTABLE"), recipeFermentable),
             hops |-> MapEls(getElementsByTagName(r, "HOP"), recipeHop),
             cultures |-> MapEls(getElementsByTagName(r, "YEAST"), recipeCulture),
             miscellaneous |-> MapEls(getElementsByTagName(r, "MISC"), recipeMisc)],
         specifications |->
            [og |-> [value |-> getNum(r, "EST_OG")],
             fg |-> [value |-> getNum(r, "EST_FG")],
             abv |-> [value |-> getNum(r, "EST_ABV")],
             ibu |-> [value |-> getNum(r, "IBU")],
             color |-> [value |-> getNum(r, "EST_COLOR")]]],
        recipeStyle(Els(getElementsByTagName(r, "STYLE")))),
        recipeMash(Els(getElementsByTagName(r, "MASH"))))

\* doc is the document node; the ids of the recipes are numbered from nid
parseBeerXml(doc, nid) ==
    LET styles == SkipParents(getElementsByTagName(doc, "STYLE"), {"RECIPE"})
        miscs == SkipParents(getElementsByTagName(doc, "MISC"), {"RECIPE", "MISCELLANEOUS"})
        mashes == SkipParents(getElementsByTagName(doc, "MASH"), {"RECIPE"})
        rs == Els(getElementsByTagName(doc, "RECIPE"))
    IN  [recipes |-> [i \in 1..Len(rs) |-> recipeOf(rs[i], nid + i - 1)],
         fermentables |-> <<>>,
         hops |-> <<>>,
         cultures |-> <<>>,
         miscs |-> [i \in 1..Len(miscs) |-> globalMisc(miscs[i])],
         waters |-> <<>>,
         styles |-> [i \in 1..Len(styles) |-> globalStyle(styles[i])],
         equipments |-> <<>>,
         mashes |-> [i \in 1..Len(mashes) |-> globalMash(mashes[i])]]

-----------------------------------------------------------------------------
(* exportToBeerXml and exportLibraryToBeerXml (beerXmlExportService).

   A text is a sequence of tokens: a tag written in the source of the
   export functions is one token, every other character is a token of its
   own.                                                                     *)

Open(tag) == [kind |-> "open", v |-> tag]

Close(tag) == [kind |-> "close", v |-> tag]

Chr(c) == [kind |-> "char", v |-> c]

\* <?xml version="1.0" encoding="UTF-8"?>
Declaration == [kind |-> "decl", v |-> "xml"]

Chars(str) == [i \in 1..Len(str) |-> Chr(str[i])]

RECURSIVE Flatten(_)
Flatten(lists) ==
    IF lists = <<>> THEN <<>> ELSE Head(lists) \o Flatten(Tail(lists))

Special == {"&", "<", ">", "\"", "'"}

Entity(c) ==
    CASE c = "&" -> <<"&", "a", "m", "p", ";">>
      [] c = "<" -> <<"&", "l", "t", ";">>
      [] c = ">" -> <<"&", "g", "t", ";">>
      [] c = "\"" -> <<"&", "q", "u", "o", "t", ";">>
      [] c = "'" -> <<"&", "a", "p", "o", "s", ";">>

\* an ampersand that is already followed by the rest of an entity is left alone
sanitize_keepEntities(str) ==
    Flatten([i \in 1..Len(str) |->
        IF str[i] \in Special
             /\ ~(str[i] = "&" /\ \E c \in Special :
                    /\ i + Len(Entity(c)) - 1 <= Len(str)
                    /\ SubSeq(str, i, i + Len(Entity(c)) - 1) = Entity(c))
        THEN Entity(str[i])
        ELSE <<str[i]>>])

sanitize(str) ==
    Flatten([i \in 1..Len(str) |->
        IF str[i] \in Special THEN Entity(str[i]) ELSE <<str[i]>>])

RECURSIVE DigitsOf(_)
DigitsOf(n) ==
    IF n < 10 THEN <<Digits[n + 1]>>
    ELSE Append(DigitsOf(n \div 10), Digits[(n % 10) + 1])

\* the six decimals of a fraction, without the zeros at its end
RECURSIVE Decimals(_, _)
Decimals(frac, width) ==
    IF frac = 0 THEN <<>>
    ELSE <<Digits[(frac \div Pow10(width - 1)) + 1]>>
           \o Decimals(frac % Pow10(width - 1), width - 1)

\* `${x}` for a number
NumberToString(x) ==
    IF x = NaN THEN <<"N", "a", "N">>
    ELSE DigitsOf(x \div Micro)
           \o (IF x % Micro = 0 THEN <<>> ELSE <<".">> \o Decimals(x % Micro, 6))

FieldOr(item, field, dflt) == IF field \in DOMAIN item THEN item[field] ELSE dflt

\* x / k for a number
DivBy(x, k) == IF x = NaN THEN NaN ELSE x \div k

Spaces(n) == [i \in 1..n |-> Chr(" ")]

\* a part that is one tag
Mark(indent, token) == Spaces(indent) \o <<token>>

\* a part that is an element with text
Elem(indent, tag, text) ==
    Spaces(indent) \o <<Open(tag)>> \o Chars(text) \o <<Close(tag)>>

\* xmlParts.join('\n')
RECURSIVE join(_)
join(xmlParts) ==
    IF xmlParts = <<>> THEN <<>>
    ELSE IF Len(xmlParts) = 1 THEN xmlParts[1]
    ELSE xmlParts[1] \o <<Chr("\n")>> \o join(Tail(xmlParts))

AllGrain == <<"a", "l", "l", "_", "g", "r", "a", "i", "n">>

typeText(type) ==
    IF type = AllGrain THEN <<"A", "l", "l", " ", "G", "r", "a", "i", "n">>
    ELSE IF type = <<"e", "x", "t", "r", "a", "c", "t">>
         THEN <<"E", "x", "t", "r", "a", "c", "t">>
         ELSE <<"P", "a", "r", "t", "i", "a", "l", " ", "M", "a", "s", "h">>

styleParts(recipe) ==
    IF "style" \in DOMAIN recipe
    THEN << Mark(4, Open("STYLE")),
            Elem(6, "NAME", sanitize(recipe.style.name)),
            Elem(6, "CATEGORY", sanitize(FieldOr(recipe.style, "category", <<>>))),
            Elem(6, "VERSION", <<"1">>),
            Mark(4, Close("STYLE")) >>
    ELSE <<>>

fermentableParts(f) ==
    << Mark(6, Open("FERMENTABLE")),
       Elem(8, "NAME", sanitize(f.name)),
       Elem(8, "AMOUNT", NumberToString(f.amount.value)),
       Elem(8, "COLOR", NumberToString(IF "color" \in DOMAIN f THEN OrNum(f.color.value, 0) ELSE 0)),
       Mark(6, Close("FERMENTABLE")) >>

hopParts(h) ==
    << Mark(6, Open("HOP")),
       Elem(8, "NAME", sanitize(h.name)),
       Elem(8, "ALPHA", NumberToString(IF "alpha_acid" \in DOMAIN h THEN OrNum(h.alpha_acid.value, 0) ELSE 0)),
       Elem(8, "AMOUNT", NumberToString(DivBy(h.amount.value, 1000))),
       Elem(8, "USE", sanitize(h.use)),
       Elem(8, "TIME", NumberToString(h.time.value)),
       Mark(6, Close("HOP")) >>

miscParts(m) ==
    << Mark(6, Open("MISC")),
       Elem(8, "NAME", sanitize(m.name)),
       Elem(8, "AMOUNT", NumberToString(DivBy(m.amount.value, 1000))),
       Elem(8, "TYPE", sanitize(m.type)),
       Elem(8, "USE", sanitize(m.use)),
       Elem(8, "TIME", NumberToString(m.time.value)),
       Mark(6, Close("MISC")) >>

miscellaneousParts(recipe) ==
    IF "miscellaneous" \in DOMAIN recipe.ingredients
         /\ Len(recipe.ingredients.miscellaneous) > 0
    THEN <<Mark(4, Open("MISCELLANEOUS"))>>
           \o Flatten([i \in 1..Len(recipe.ingredients.miscellaneous) |->
                         miscParts(recipe.ingredients.miscellaneous[i])])
           \o <<Mark(4, Close("MISCELLANEOUS"))>>
    ELSE <<>>

exportToBeerXml(recipe) ==
    join(<< <<Declaration>>,
            Mark(0, Open("RECIPES")),
            Mark(2, Open("RECIPE")),
            Elem(4, "NAME", sanitize(recipe.name)),
            Elem(4, "VERSION", <<"1">>),
            Elem(4, "TYPE", typeText(recipe.type)) >>
         \o styleParts(recipe)
         \o << Elem(4, "BREWER", sanitize(OrText(FieldOr(recipe, "author", <<>>),
                                                 <<"b", "r", "e", "w", "b", "i", "n", "d", "r">>))),
               Elem(4, "BATCH_SIZE", NumberToString(recipe.batch_size.value)),
               Elem(4, "BOIL_TIME", NumberToString(recipe.boil_time.value)),
               Elem(4, "EFFICIENCY", NumberToString(recipe.efficiency.brewhouse)),
               Mark(4, Open("FERMENTABLES")) >>
         \o Flatten([i \in 1..Len(recipe.ingredients.fermentables) |->
                       fermentableParts(recipe.ingredients.fermentables[i])])
         \o << Mark(4, Close("FERMENTABLES")),
               Mark(4, Open("HOPS")) >>
         \o Flatten([i \in 1..Len(recipe.ingredients.hops) |->
                       hopParts(recipe.ingredients.hops[i])])
         \o << Mark(4, Close("HOPS")) >>
         \o miscellaneousParts(recipe)
         \o << Mark(2, Close("RECIPE")),
               Mark(0, Close("RECIPES")) >>)

\* Array.prototype.filter(i => i.type === type)
filterType(ingredients, type) ==
    LET F[i \in 0..Len(ingredients)] ==
            IF i = 0 THEN <<>>
            ELSE IF ingredients[i].type = type THEN Append(F[i - 1], ingredients[i])
                 ELSE F[i - 1]
    IN  F[Len(ingredients)]

libraryMiscParts(m) ==
    << Mark(2, Open("MISC")),
       Elem(4, "NAME", sanitize(m.name)),
       Elem(4, "TYPE", sanitize(OrText(FieldOr(m, "misc_type", <<>>), <<"O", "t", "h", "e", "r">>))),
       Elem(4, "USE", sanitize(OrText(FieldOr(m, "misc_use", <<>>), <<"B", "o", "i", "l">>))),
       Mark(2, Close("MISC")) >>

libraryStyleParts(s) ==
    << Mark(2, Open("STYLE")),
       Elem(4, "NAME", sanitize(s.name)),
       Elem(4, "CATEGORY", sanitize(FieldOr(s, "category", <<>>))),
       Elem(4, "OG_MIN", NumberToString(OrNum(FieldOr(s, "og_min", 0), 0))),
       Elem(4, "OG_MAX", NumberToString(OrNum(FieldOr(s, "og_max", 0), 0))),
       Elem(4, "IBU_MIN", NumberToString(OrNum(FieldOr(s, "ibu_min", 0), 0))),
       Elem(4, "IBU_MAX", NumberToString(OrNum(FieldOr(s, "ibu_max", 0), 0))),
       Mark(2, Close("STYLE")) >>

exportLibraryToBeerXml(ingredients) ==
    join(<< <<Declaration>>,
            Mark(0, Open("BREW_LIBRARY")) >>
         \o Flatten([i \in 1..Len(filterType(ingredients, "misc")) |->
                       libraryMiscParts(filterType(ingredients, "misc")[i])])
         \o Flatten([i \in 1..Len(filterType(ingredients, "style")) |->
                       libraryStyleParts(filterType(ingredients, "style")[i])])
         \o << Mark(0, Close("BREW_LIBRARY")) >>)

-----------------------------------------------------------------------------
(* DOMParser.parseFromString(xmlString, "text/xml") *)

Txt(c) == [kind |-> "text", v |-> c]

Malformed == [kind |-> "malformed", v |-> "&<"]

Skip == [kind |-> "skip", v |-> ""]

\* the characters whose entity is written from position i on
EntityAt(ts, i) ==
    { c \in Special :
        /\ i >= 1
        /\ i + Len(Entity(c)) - 1 <= Len(ts)
        /\ \A k \in 1..Len(Entity(c)) : ts[i + k - 1] = Chr(Entity(c)[k]) }

\* Character data: an entity stands for its character, any other character
\* for itself; a "<" or an ampersand that starts none of the five entities
\* is not well-formed. References by number are not read.
decodeAt(ts, i) ==
    IF ts[i].kind # "char" THEN ts[i]
    ELSE IF EntityAt(ts, i) # {} THEN Txt(CHOOSE c \in EntityAt(ts, i) : TRUE)
    ELSE IF \E j \in (i - 5)..(i - 1) :
               \E c \in EntityAt(ts, j) : j + Len(Entity(c)) > i
         THEN Skip
    ELSE IF ts[i].v \in {"<", "&"} THEN Malformed
    ELSE Txt(ts[i].v)

decode(ts) == [i \in 1..Len(ts) |-> decodeAt(ts, i)]

WhiteSpace == {" ", "\n", "\t", "\r"}

(* A piece of a text read on its own is
       C1 </t1> ... Ck </tk>  M  <u1> D1 ... <um> Dm
   where every C, M and D is content (text and whole elements): up holds
   the contents that an end tag closes, mid the content between them and
   the first start tag left open, down the start tags left open with the
   content read so far.                                                     *)
Piece(up, mid, down, bad) == [up |-> up, mid |-> mid, down |-> down, bad |-> bad]

Content(text, children) == [text |-> text, children |-> children]

Empty == Content(<<>>, <<>>)

Within(tag, content) == El(tag, content.text, content.children)

\* content a, then the elements of carry, then content b
Joined(a, carry, b) ==
    Content(a.text \o b.text, a.children \o carry \o b.children)

pieceOf(token) ==
    CASE token.kind = "open" -> Piece(<<>>, Empty, <<Within(token.v, Empty)>>, FALSE)
      [] token.kind = "close" -> Piece(<<Within(token.v, Empty)>>, Empty, <<>>, FALSE)
      [] token.kind = "text" -> Piece(<<>>, Content(<<token.v>>, <<>>), <<>>, FALSE)
      [] token.kind = "malformed" -> Piece(<<>>, Empty, <<>>, TRUE)
      [] OTHER -> Piece(<<>>, Empty, <<>>, FALSE)

\* the element that the i innermost start tags of down and the first i end
\* tags of up make, <<>> for i = 0
RECURSIVE closed(_, _, _)
closed(down, up, i) ==
    IF i = 0 THEN <<>>
    ELSE <<Within(down[Len(down) - i + 1].tag,
                  Joined(down[Len(down) - i + 1], closed(down, up, i - 1), up[i]))>>

meet(l, r, n, carry) ==
    IF Len(l.down) > n
    THEN Piece(l.up, l.mid,
               SubSeq(l.down, 1, Len(l.down) - n - 1)
                 \o <<Within(l.down[Len(l.down) - n].tag,
                             Joined(l.down[Len(l.down) - n], carry, r.mid))>>
                 \o r.down,
               FALSE)
    ELSE IF Len(r.up) > n
    THEN Piece(l.up
                 \o <<Within(r.up[n + 1].tag, Joined(l.mid, carry, r.up[n + 1]))>>
                 \o SubSeq(r.up, n + 2, Len(r.up)),
               r.mid, r.down, FALSE)
    ELSE Piece(l.up, Joined(l.mid, carry, r.mid), r.down, FALSE)

\* piece l followed by piece r
combine(l, r) ==
    IF l.bad \/ r.bad
         \/ \E i \in 1..Len(l.down) :
               i <= Len(r.up) /\ l.down[Len(l.down) - i + 1].tag # r.up[i].tag
    THEN Piece(<<>>, Empty, <<>>, TRUE)
    ELSE IF Len(l.down) <= Len(r.up)
         THEN meet(l, r, Len(l.down), closed(l.down, r.up, Len(l.down)))
         ELSE meet(l, r, Len(r.up), closed(l.down, r.up, Len(r.up)))

\* the piece that the tokens from..to make
RECURSIVE build(_, _, _)
build(ts, from, to) ==
    IF from > to THEN Piece(<<>>, Empty, <<>>, FALSE)
    ELSE IF from = to THEN pieceOf(ts[from])
    ELSE combine(build(ts, from, (from + to) \div 2),
                 build(ts, ((from + to) \div 2) + 1, to))

\* the document of a text that is not well-formed
ParserError == El("#document", <<>>, <<El("parsererror", <<>>, <<>>)>>)

\* one root element, and nothing but white space around it
documentOf(piece) ==
    IF /\ ~piece.bad
       /\ piece.up = <<>>
       /\ piece.down = <<>>
       /\ Len(piece.mid.children) = 1
       /\ \A i \in DOMAIN piece.mid.text : piece.mid.text[i] \in WhiteSpace
    THEN El("#document", <<>>, piece.mid.children)
    ELSE ParserError

parseFromString(xmlString) ==
    documentOf(build(decode(xmlString), 1, Len(xmlString)))

-----------------------------------------------------------------------------
(* JSON.stringify and JSON.parse on the backup object (App.tsx:206-275).

   A JSON text is held as the tree of its values. The kind of a property is
   looked up by its name in a table; a property without entry is an object. *)

\* null where a number is read
NullNumber == -2

JNull == [kind |-> "null", v |-> <<>>]

JNumber(x) == [kind |-> "number", v |-> NumberToString(x)]

JString(str) == [kind |-> "string", v |-> str]

JArray(items) == [kind |-> "array", v |-> items]

JObject(props) == [kind |-> "object", v |-> props]

RecipeKinds ==
    [id |-> "string", user_id |-> "string", name |-> "string", type |-> "string",
     author |-> "string", notes |-> "string", unit |-> "string", use |-> "string",
     form |-> "string", category |-> "string", description |-> "string",
     value |-> "number", brewhouse |-> "number", attenuation |-> "number",
     grain_temp |-> "number", sparge_temp |-> "number", ph |-> "number",
     step_temp |-> "number", step_time |-> "number", infuse_amount |-> "number",
     ramp_time |-> "number", end_temp |-> "number",
     fermentables |-> "array", hops |-> "array", cultures |-> "array",
     miscellaneous |-> "array", steps |-> "array"]

LibraryKinds ==
    [id |-> "string", user_id |-> "string", name |-> "string", type |-> "string",
     form |-> "string",
     color |-> "number", yield |-> "number", alpha |-> "number",
     attenuation |-> "number", grain_temp |-> "number"]

BrewLogKinds ==
    [id |-> "string", user_id |-> "string", recipeId |-> "string", date |-> "string",
     status |-> "string", notes |-> "string", actual_og |-> "number"]

TastingNoteKinds ==
    [id |-> "string", recipeId |-> "string", brewLogId |-> "string",
     date |-> "string", comments |-> "string", overall |-> "number"]

KindOf(kinds, key) == IF key \in DOMAIN kinds THEN kinds[key] ELSE "object"

\* JSON.stringify: a number that is NaN is written as null
RECURSIVE stringifyValue(_, _, _)
stringifyValue(kinds, kind, value) ==
    CASE kind = "number" -> IF value = NaN THEN JNull ELSE JNumber(value)
      [] kind = "string" -> JString(value)
      [] kind = "array" ->
            JArray([i \in 1..Len(value) |-> stringifyValue(kinds, "object", value[i])])
      [] OTHER ->
            JObject([key \in DOMAIN value |->
                       stringifyValue(kinds, KindOf(kinds, key), value[key])])

stringifyList(kinds, list) == stringifyValue(kinds, "array", list)

\* JSON.parse
RECURSIVE parseValue(_)
parseValue(json) ==
    CASE json.kind = "null" -> NullNumber
      [] json.kind = "number" -> parseFloat(json.v)
      [] json.kind = "string" -> json.v
      [] json.kind = "array" -> [i \in 1..Len(json.v) |-> parseValue(json.v[i])]
      [] OTHER -> [key \in DOMAIN json.v |-> parseValue(json.v[key])]

ExportDate == <<"2", "0", "2", "4">>

\* JSON.stringify(data, null, 2) of handleExportData
stringify(rs, logs, notes, lib) ==
    JObject([version |-> JNumber(1 * Micro),
             exportDate |-> JString(ExportDate),
             recipes |-> stringifyList(RecipeKinds, rs),
             brewLogs |-> stringifyList(BrewLogKinds, logs),
             tastingNotes |-> stringifyList(TastingNoteKinds, notes),
             library |-> stringifyList(LibraryKinds, lib)])

\* if (data.key) set(data.key): an array, empty or not, is taken
restored(data, key, current) ==
    IF key \in DOMAIN data THEN data[key] ELSE current

-----------------------------------------------------------------------------
(* Initial state and actions *)

AppInit ==
    /\ recipes = <<>>
    /\ library = EXAMPLES
    /\ importStatus = "idle"
    /\ importQueue = <<>>
    /\ currentDuplicate = Null
    /\ timers = <<>>
    /\ inflight = Null
    /\ nextId = FirstId
    /\ queued = 0
    /\ batch = <<>>
    /\ startLib = <<>>
    /\ log = <<>>
    /\ statusLog = <<>>
    /\ alerts = <<>>
    /\ started = NoFlow
    /\ saves = 0

NoCalc == calcIn = Null /\ calcOut = <<>>

\* no remote load is pending
NoLoad == remote = Null

\* no brew log is open
NoBrewLog == entry = Null /\ activeTab = "brew"

NoBackup ==
    /\ brewLogs = <<>>
    /\ tastingNotes = <<>>
    /\ backup = Null
    /\ saved = Null

Init ==
    /\ AppInit
    /\ xmlDoc = Null
    /\ xmlResult = Null
    /\ exported = Null
    /\ xmlText = Null
    /\ NoBackup
    /\ NoCalc
    /\ NoLoad
    /\ NoBrewLog

\* the full-screen overlay shown while importStatus # 'idle' keeps the
\* import controls out of reach
CanStartImport ==
    /\ importStatus = "idle"
    /\ inflight = Null
    /\ queued < MaxQueued

\* handleFileImport: a file was chosen; reader.readAsText(file) is pending
HandleFileImport ==
    /\ CanStartImport
    /\ importStatus' = "parsing"
    /\ statusLog' = <<"parsing">>
    /\ alerts' = <<>>
    /\ started' = NoFlow
    /\ inflight' = [type |-> "file", recipes |-> recipes, library |-> library]
    /\ UNCHANGED <<recipes, library, importQueue, currentDuplicate, timers,
                   nextId, queued, batch, startLib, log, saves, restVars>>

\* reader.onload for a file whose text parses to one of the given results:
\* startImportFlow(parseBeerXml(text))
ReaderOnloadOf(results) ==
    /\ inflight.type = "file"
    /\ \E result \in results :
          LET parsed == [result EXCEPT !.recipes = WithIds(@, nextId)]
              st0 == [State EXCEPT !.nextId = nextId + Len(result.recipes)]
          IN  /\ Apply(startImportFlow(parsed, inflight, st0))
              /\ queued' = queued + Len(buildQueue(result))
    /\ inflight' = Null
    /\ UNCHANGED saves

ReaderOnload == ReaderOnloadOf(ImportResults(MaxQueued - queued))

\* the FileReader fails to read the file: it fires error, for which
\* handleFileImport registers no handler, and load is never fired
ReaderError ==
    /\ inflight.type = "file"
    /\ inflight' = Null
    /\ statusLog' = <<>>
    /\ alerts' = <<>>
    /\ started' = NoFlow
    /\ UNCHANGED <<recipes, library, importStatus, importQueue, currentDuplicate,
                   timers, nextId, queued, batch, startLib, log, saves, restVars>>

\* handleConfirmDemoImport up to the first await fetch
HandleConfirmDemoImport ==
    /\ CanStartImport
    /\ importStatus' = "fetching"
    /\ statusLog' = <<"fetching">>
    /\ alerts' = <<>>
    /\ started' = NoFlow
    /\ inflight' = [type |-> "demo", recipes |-> recipes, library |-> library]
    /\ UNCHANGED <<recipes, library, importQueue, currentDuplicate, timers,
                   nextId, queued, batch, startLib, log, saves, restVars>>

\* as DemoFetched, without setImportStatus('parsing')
DemoFetched_skipParsing ==
    /\ inflight.type = "demo"
    /\ \E result \in ImportResults(MaxQueued - queued) :
          LET parsed == [result EXCEPT !.recipes = WithIds(@, nextId)]
              st0 == [State EXCEPT !.nextId = nextId + Len(result.recipes)]
          IN  /\ Apply(startImportFlow(parsed, inflight, st0))
              /\ queued' = queued + Len(buildQueue(result))
    /\ inflight' = Null
    /\ UNCHANGED saves

\* handleConfirmDemoImport after the last fetch: setImportStatus('parsing');
\* startImportFlow(aggregatedResult)
DemoFetched ==
    /\ inflight.type = "demo"
    /\ \E result \in ImportResults(MaxQueued - queued) :
          LET parsed == [result EXCEPT !.recipes = WithIds(@, nextId)]
              st0 == setImportStatus(
                         [State EXCEPT !.nextId = nextId + Len(result.recipes)],
                         "parsing")
          IN  /\ Apply(startImportFlow(parsed, inflight, st0))
              /\ queued' = queued + Len(buildQueue(result))
    /\ inflight' = Null
    /\ UNCHANGED saves

BatchErrors == "Batch import encountered errors."

\* handleConfirmDemoImport, catch branch: a fetch threw
DemoFailed ==
    /\ inflight.type = "demo"
    /\ importStatus' = "idle"
    /\ statusLog' = <<"idle">>
    /\ alerts' = <<BatchErrors>>
    /\ started' = NoFlow
    /\ inflight' = Null
    /\ UNCHANGED <<recipes, library, importQueue, currentDuplicate, timers,
                   nextId, queued, batch, startLib, log, saves, restVars>>

\* a pending setTimeout callback runs processQueue with its arguments
TimerFire ==
    /\ timers # <<>>
    /\ LET t == Head(timers) IN
          Apply(processQueue(t.queue, t.recipes, t.lib,
                             [State EXCEPT !.timers = Tail(timers)]))
    /\ UNCHANGED <<inflight, queued, saves>>

Actions == {"cancel", "skip", "overwrite", "copy"}

\* one of the buttons of the conflict dialog
ResolveConflict(action) ==
    /\ currentDuplicate # Null
    /\ Apply(resolveConflict(action, State))
    /\ UNCHANGED <<inflight, queued, saves>>

Next ==
    \/ HandleFileImport
    \/ ReaderOnload
    \/ ReaderError
    \/ HandleConfirmDemoImport
    \/ DemoFetched
    \/ DemoFailed
    \/ TimerFire
    \/ \E action \in Actions : ResolveConflict(action)

Spec == Init /\ [][Next]_vars

\* The asynchronous steps happen: a pending timer fires, a pending file read
\* ends (with load or with error), a pending demo fetch ends (with the
\* result or with an exception); and an exposed conflict is answered.
FairSpec ==
    /\ Spec
    /\ WF_vars(TimerFire)
    /\ WF_vars(ReaderOnload \/ ReaderError)
    /\ WF_vars(DemoFetched \/ DemoFailed)
    /\ WF_vars(\E action \in Actions : ResolveConflict(action))

-----------------------------------------------------------------------------
(* The recipe editor and the ingredient library next to the import flow *)

\* the edit forms: the entry as startEditing copied it, with the one number
\* of its type that recipes copy (or, for the other types, one field) changed
EditForms(item) ==
    { Spread(item,
        CASE item.type = "fermentable" -> [color |-> 99]
          [] item.type = "hop" -> [alpha |-> 99]
          [] item.type = "culture" -> [attenuation |-> 999]
          [] item.type = "mash_profile" -> [grain_temp |-> 99]
          [] OTHER -> [notes |-> "edited"]) }

\* the ids of the library entries that recipes refer to
LinkedIds ==
    UNION { { l[j].libraryId : j \in { k \in DOMAIN l : "libraryId" \in DOMAIN l[k] } } :
            l \in UNION { { recipes[i].ingredients.fermentables,
                            recipes[i].ingredients.hops,
                            recipes[i].ingredients.cultures } : i \in DOMAIN recipes } }

\* the views are out of reach while the import overlay is up
NoOverlay == importStatus = "idle"

CanSave ==
    /\ NoOverlay
    /\ saves < MaxSaves

NoHandlerHistory ==
    /\ statusLog' = <<>>
    /\ alerts' = <<>>
    /\ started' = NoFlow

\* as SaveEditing, and the new colour is written to the fermentables that
\* refer to the edited entry
SaveEditing_syncRecipes ==
    /\ CanSave
    /\ saves' = saves + 1
    /\ \E p \in DOMAIN library :
          /\ library[p].id \in LinkedIds
          /\ \E editForm \in EditForms(library[p]) :
                /\ library' = saveEditing(library, library[p].id, editForm)
                /\ recipes' =
                      [i \in DOMAIN recipes |->
                         [recipes[i] EXCEPT !.ingredients.fermentables =
                            [j \in DOMAIN recipes[i].ingredients.fermentables |->
                               LET f == recipes[i].ingredients.fermentables[j] IN
                               IF Field(f, "libraryId") = library[p].id
                               THEN Spread(f, [color |-> OrElse(editForm, "color", 20)])
                               ELSE f]]]
    /\ NoHandlerHistory
    /\ UNCHANGED <<importStatus, importQueue, currentDuplicate, timers,
                   inflight, nextId, queued, batch, startLib, log, restVars>>

\* IngredientLibrary: an entry that a recipe refers to is edited and saved;
\* onUpdate of App.tsx stores the list (no entry is deleted)
SaveEditing ==
    /\ CanSave
    /\ saves' = saves + 1
    /\ \E p \in DOMAIN library :
          /\ library[p].id \in LinkedIds
          /\ \E editForm \in EditForms(library[p]) :
                library' = saveEditing(library, library[p].id, editForm)
    /\ NoHandlerHistory
    /\ UNCHANGED <<recipes, importStatus, importQueue, currentDuplicate, timers,
                   inflight, nextId, queued, batch, startLib, log, restVars>>

\* RecipeCreator opened on a recipe: the first fermentable, hop or culture
\* is set from a library entry of its type (handleLibrarySelect), and the
\* recipe is saved (handleSaveRecipe)
SaveRecipe ==
    /\ CanSave
    /\ saves' = saves + 1
    /\ \E i \in DOMAIN recipes, p \in DOMAIN library :
          /\ library[p].type \in {"fermentable", "hop", "culture"}
          /\ recipes[i].ingredients[library[p].type \o "s"] # <<>>
          /\ recipes' = handleSaveRecipe(
                            handleLibrarySelect(library[p].type, 1, library[p].id,
                                                recipes[i], library),
                            recipes[i], recipes, nextId)
    /\ NoHandlerHistory
    /\ UNCHANGED <<library, importStatus, importQueue, currentDuplicate, timers,
                   inflight, nextId, queued, batch, startLib, log, restVars>>

\* the files imported next to the editor and the library: documents with
\* one recipe or one mash profile
LibraryFiles ==
    { result \in ImportResults(IF queued < MaxQueued THEN 1 ELSE 0) :
         result.styles = <<>> /\ result.miscs = <<>> }

LibraryReaderOnload == ReaderOnloadOf(LibraryFiles)

LibraryNext ==
    \/ HandleFileImport
    \/ LibraryReaderOnload
    \/ TimerFire
    \/ \E action \in Actions : ResolveConflict(action)
    \/ SaveEditing
    \/ SaveRecipe

LibrarySpec == Init /\ [][LibraryNext]_vars

-----------------------------------------------------------------------------
(* parseBeerXml applied to documents *)

ItemTags == {"FERMENTABLE", "HOP", "YEAST", "MISC", "STYLE", "MASH"}

\* record-set elements and the elements they hold
Wrappers ==
    { <<"FERMENTABLES", "FERMENTABLE">>, <<"HOPS", "HOP">>, <<"YEASTS", "YEAST">>,
      <<"MISCS", "MISC">>, <<"MISCELLANEOUS", "MISC">>, <<"STYLES", "STYLE">>,
      <<"MASHS", "MASH">> }

Named(tag, name) == El(tag, <<>>, <<El("NAME", name, <<>>)>>)

\* an element of each tag, alone or in a record set
Declarations(name) ==
    { Named(tag, name) : tag \in ItemTags }
      \cup { El(w[1], <<>>, <<Named(w[2], name)>>) : w \in Wrappers }

\* RECIPE elements with at most one ingredient, style or mash
RecipeNodes ==
    { El("RECIPE", <<>>, <<El("NAME", <<"R">>, <<>>)>> \o inner) :
        inner \in {<<>>} \cup { <<d>> : d \in Declarations(<<"L">>) } }

TopNodes == Declarations(<<"G">>) \cup RecipeNodes

Documents ==
    { El("#document", <<>>, <<El("RECIPES", <<>>, nodes)>>) :
        nodes \in UNION { [1..n -> TopNodes] : n \in 0..MaxNodes } }

\* an element that is left out, or holds one of the texts
Maybe(tag, texts) == {<<>>} \cup { <<El(tag, text, <<>>)>> : text \in texts }

\* a RECIPE whose NAME, BATCH_SIZE and HOP, and the AMOUNT and TIME of the
\* hop, are left out, hold a number, or hold a text that is no number
FieldDocs ==
    { El("#document", <<>>,
         <<El("RECIPES", <<>>, <<El("RECIPE", <<>>, name \o size \o hop)>>)>>) :
        name \in Maybe("NAME", { <<"R">> }),
        size \in Maybe("BATCH_SIZE", { <<"2", "0">>, <<"n", "/", "a">>, <<>> }),
        hop \in {<<>>} \cup
                { <<El("HOP", <<>>, amount \o time)>> :
                    amount \in Maybe("AMOUNT", { <<"0", ".", "0", "2", "8">>, <<"x">> }),
                    time \in Maybe("TIME", { <<"6", "0">>, <<"l", "o", "n", "g">> }) } }

ParseInit ==
    /\ AppInit
    /\ xmlDoc \in Documents \cup FieldDocs \cup { ParserError }
    /\ xmlResult = Null
    /\ exported = Null
    /\ xmlText = Null
    /\ NoBackup
    /\ NoCalc
    /\ NoLoad
    /\ NoBrewLog

ParseBeerXml ==
    /\ xmlDoc # Null
    /\ xmlResult = Null
    /\ xmlResult' = parseBeerXml(xmlDoc, nextId)
    /\ UNCHANGED <<appVars, backupVars, calcVars, remote, brewVars, xmlDoc, exported, xmlText>>

ParseSpec == ParseInit /\ [][ParseBeerXml]_vars

-----------------------------------------------------------------------------
(* BeerXML export of a recipe or of the library, and import of the text *)

Names ==
    { <<"R">>, <<"R", "&", "D">>, <<"<", "b", ">">>, <<"\"", "'">>,
      <<"&", "a", "m", "p", ";">> }

BatchSizes ==
    { [unit |-> "liters", value |-> 20 * Micro],
      [unit |-> "gallons", value |-> 5500000] }

FermentableInputs ==
    { [name |-> <<"P">>, type |-> <<"g", "r", "a", "i", "n">>,
       amount |-> [unit |-> "kilograms", value |-> 4500000],
       color |-> [value |-> 3500000]],
      [name |-> <<"M", "&", "O">>, type |-> <<"g", "r", "a", "i", "n">>,
       amount |-> [unit |-> "pounds", value |-> 10 * Micro],
       color |-> [value |-> 0]] }

HopInputs ==
    { [name |-> <<"C">>,
       amount |-> [unit |-> "grams", value |-> 28 * Micro],
       alpha_acid |-> [value |-> 5500000],
       use |-> <<"b", "o", "i", "l">>,
       time |-> [unit |-> "minutes", value |-> 60 * Micro]],
      [name |-> <<"S", "'">>,
       amount |-> [unit |-> "ounces", value |-> 1500000],
       alpha_acid |-> [value |-> 0],
       use |-> <<"d", "r", "y", "_", "h", "o", "p">>,
       time |-> [unit |-> "minutes", value |-> 0]] }

MiscInputs ==
    { [name |-> <<"I", "<">>, type |-> <<"f", "i", "n", "i", "n", "g">>,
       use |-> <<"b", "o", "i", "l">>,
       amount |-> [unit |-> "grams", value |-> 5 * Micro],
       time |-> [unit |-> "minutes", value |-> 15 * Micro]] }

Styles == { [name |-> <<"I", ">">>, category |-> <<"\"", "A">>] }

UpTo(S, n) == UNION { [1..k -> S] : k \in 0..n }

WithStyle(recipe) == { recipe } \cup { Spread(recipe, [style |-> st]) : st \in Styles }

\* recipes of the structured model (types.ts)
RecipeInputs ==
    UNION { WithStyle(
              [id |-> 1, name |-> name, type |-> AllGrain, author |-> <<>>,
               notes |-> <<>>, batch_size |-> size,
               efficiency |-> [brewhouse |-> 75 * Micro],
               boil_time |-> [unit |-> "minutes", value |-> 60 * Micro],
               ingredients |-> [fermentables |-> fs, hops |-> hs,
                                cultures |-> <<>>, miscellaneous |-> ms]]) :
            name \in Names, size \in BatchSizes,
            fs \in UpTo(FermentableInputs, MaxIngredients),
            hs \in UpTo(HopInputs, MaxIngredients),
            ms \in UpTo(MiscInputs, 1) }

LibraryInputs ==
    { [id |-> 1, name |-> <<"I", "&">>, type |-> "misc",
       misc_type |-> <<"f", "i", "n", "i", "n", "g">>, misc_use |-> <<"b", "o", "i", "l">>],
      [id |-> 2, name |-> <<"&", "l", "t", ";">>, type |-> "misc"],
      [id |-> 3, name |-> <<"A", "'">>, type |-> "style", category |-> <<"<", "1", ">">>,
       og_min |-> 1040000, og_max |-> 1060000, ibu_min |-> 20 * Micro],
      [id |-> 4, name |-> <<"P", "\"">>, type |-> "fermentable"] }

ExportInputs ==
    { [kind |-> "recipe", recipe |-> recipe] : recipe \in RecipeInputs }
      \cup { [kind |-> "library", library |-> lib] : lib \in UpTo(LibraryInputs, 2) }

ExportInit ==
    /\ AppInit
    /\ xmlDoc = Null
    /\ xmlResult = Null
    /\ exported \in ExportInputs
    /\ xmlText = Null
    /\ NoBackup
    /\ NoCalc
    /\ NoLoad
    /\ NoBrewLog

\* handleExportRecipeBeerXml
ExportRecipeBeerXml ==
    /\ exported.kind = "recipe"
    /\ xmlText = Null
    /\ xmlText' = exportToBeerXml(exported.recipe)
    /\ UNCHANGED <<appVars, backupVars, calcVars, remote, brewVars, xmlDoc, xmlResult, exported>>

\* handleExportLibraryBeerXml
ExportLibraryBeerXml ==
    /\ exported.kind = "library"
    /\ xmlText = Null
    /\ xmlText' = exportLibraryToBeerXml(exported.library)
    /\ UNCHANGED <<appVars, backupVars, calcVars, remote, brewVars, xmlDoc, xmlResult, exported>>

\* parseBeerXml(xmlString) on the exported text
ImportExported ==
    /\ xmlText # Null
    /\ xmlDoc = Null
    /\ xmlDoc' = parseFromString(xmlText)
    /\ xmlResult' = parseBeerXml(parseFromString(xmlText), nextId)
    /\ UNCHANGED <<appVars, backupVars, calcVars, remote, brewVars, exported, xmlText>>

ExportNext == ExportRecipeBeerXml \/ ExportLibraryBeerXml \/ ImportExported

ExportSpec == ExportInit /\ [][ExportNext]_vars

-----------------------------------------------------------------------------
(* Backup and restore of the four collections *)

BatchSize(text) == El("BATCH_SIZE", text, <<>>)

\* RECIPE elements with a batch size of 20, of 19.5, and with a batch size
\* that is no number
BackupDocs ==
    { El("#document", <<>>,
         <<El("RECIPES", <<>>,
              <<El("RECIPE", <<>>, <<El("NAME", <<"R">>, <<>>), BatchSize(text)>>)>>)>>) :
        text \in { <<"2", "0">>, <<"1", "9", ".", "5">>, <<"n", "/", "a">> } }

\* a recipe as the import stores it
StoredRecipes ==
    { Spread(parseBeerXml(doc, FirstId).recipes[1], [user_id |-> User]) :
        doc \in BackupDocs }

BrewLogInputs ==
    { [id |-> 1, recipeId |-> FirstId, date |-> ExportDate, status |-> "brewing",
       notes |-> <<>>, measurements |-> [actual_og |-> 1050000]] }

TastingNoteInputs ==
    { [id |-> 1, recipeId |-> FirstId, brewLogId |-> 1, date |-> ExportDate,
       overall |-> 4 * Micro, comments |-> <<"o", "k">>] }

BackupIdle == importStatus = "idle" /\ inflight = Null

CanEdit == BackupIdle /\ saves < MaxSaves

\* an import of a document with one recipe that meets no conflict
ImportRecipe ==
    /\ BackupIdle
    /\ Len(recipes) < MaxRecipes
    /\ queued < MaxQueued
    /\ queued' = queued + 1
    /\ \E r \in StoredRecipes :
          /\ recipes' = Append(recipes, Spread(r, [id |-> nextId]))
          /\ nextId' = nextId + 1
    /\ alerts' = <<>>
    /\ UNCHANGED <<library, importStatus, importQueue, currentDuplicate, timers,
                   inflight, batch, startLib, log, statusLog, started, saves, xmlVars,
                   calcVars, remote, brewVars, backupVars>>

HandleDeleteRecipe ==
    /\ CanEdit
    /\ saves' = saves + 1
    /\ \E id \in { recipes[i].id : i \in DOMAIN recipes } :
          recipes' = SelectSeq(recipes, LAMBDA r : r.id # id)
    /\ alerts' = <<>>
    /\ UNCHANGED <<library, importStatus, importQueue, currentDuplicate, timers,
                   inflight, nextId, queued, batch, startLib, log, statusLog,
                   started, xmlVars,
                   calcVars, remote, brewVars, backupVars>>

\* confirmDelete of the ingredient library
DeleteItem ==
    /\ CanEdit
    /\ saves' = saves + 1
    /\ \E id \in { library[i].id : i \in DOMAIN library } :
          library' = SelectSeq(library, LAMBDA item : item.id # id)
    /\ alerts' = <<>>
    /\ UNCHANGED <<recipes, importStatus, importQueue, currentDuplicate, timers,
                   inflight, nextId, queued, batch, startLib, log, statusLog,
                   started, xmlVars,
                   calcVars, remote, brewVars, backupVars>>

\* setBrewLogs(prev => ...) of handleUpdateBrewLog
handleUpdateBrewLog(prev, updatedEntry) ==
    IF \E i \in DOMAIN prev : prev[i].id = updatedEntry.id
    THEN [i \in DOMAIN prev |->
            IF prev[i].id = updatedEntry.id THEN updatedEntry ELSE prev[i]]
    ELSE <<Spread(updatedEntry, [user_id |-> User])>> \o prev

HandleUpdateBrewLog ==
    /\ CanEdit
    /\ saves' = saves + 1
    /\ \E updatedEntry \in BrewLogInputs :
          brewLogs' = handleUpdateBrewLog(brewLogs, updatedEntry)
    /\ alerts' = <<>>
    /\ UNCHANGED <<recipes, library, importStatus, importQueue, currentDuplicate,
                   timers, inflight, nextId, queued, batch, startLib, log,
                   statusLog, started, xmlVars,
                   calcVars, remote, brewVars, tastingNotes, backup, saved>>

SaveTastingNote ==
    /\ CanEdit
    /\ saves' = saves + 1
    /\ \E note \in TastingNoteInputs : tastingNotes' = <<note>> \o tastingNotes
    /\ alerts' = <<>>
    /\ UNCHANGED <<recipes, library, importStatus, importQueue, currentDuplicate,
                   timers, inflight, nextId, queued, batch, startLib, log,
                   statusLog, started, xmlVars,
                   calcVars, remote, brewVars, brewLogs, backup, saved>>

HandleExportData ==
    /\ BackupIdle
    /\ backup = Null
    /\ backup' = stringify(recipes, brewLogs, tastingNotes, library)
    /\ saved' = [recipes |-> recipes, brewLogs |-> brewLogs,
                 tastingNotes |-> tastingNotes, library |-> library]
    /\ alerts' = <<>>
    /\ UNCHANGED <<recipes, library, importStatus, importQueue, currentDuplicate,
                   timers, inflight, nextId, queued, batch, startLib, log,
                   statusLog, started, saves, xmlVars,
                   calcVars, remote, brewVars, brewLogs, tastingNotes>>

\* the backup file is chosen and reader.readAsText starts
HandleRestoreData ==
    /\ BackupIdle
    /\ backup # Null
    /\ inflight' = [type |-> "restore", text |-> backup]
    /\ alerts' = <<>>
    /\ UNCHANGED <<recipes, library, importStatus, importQueue, currentDuplicate,
                   timers, nextId, queued, batch, startLib, log, statusLog,
                   started, saves, xmlVars,
                   calcVars, remote, brewVars, backupVars>>

RestoreDone == "Backup succesvol hersteld!"

\* reader.onload of handleRestoreData
RestoreOnload ==
    /\ inflight # Null
    /\ inflight.type = "restore"
    /\ recipes' = restored(parseValue(inflight.text), "recipes", recipes)
    /\ brewLogs' = restored(parseValue(inflight.text), "brewLogs", brewLogs)
    /\ tastingNotes' = restored(parseValue(inflight.text), "tastingNotes", tastingNotes)
    /\ library' = restored(parseValue(inflight.text), "library", library)
    /\ alerts' = <<RestoreDone>>
    /\ inflight' = Null
    /\ UNCHANGED <<importStatus, importQueue, currentDuplicate, timers, nextId,
                   queued, batch, startLib, log, statusLog, started, saves,
                   xmlVars,
                   calcVars, remote, brewVars, backup, saved>>

BackupNext ==
    \/ ImportRecipe
    \/ HandleDeleteRecipe
    \/ DeleteItem
    \/ HandleUpdateBrewLog
    \/ SaveTastingNote
    \/ HandleExportData
    \/ HandleRestoreData
    \/ RestoreOnload

BackupSpec == Init /\ [][BackupNext]_vars

-----------------------------------------------------------------------------
(* Arithmetic of calculations.ts. A number is an integer count of
   millionths, as above; what a double keeps beyond the sixth decimal is
   cut off. NaN and Infinity are values of their own (the sign of an
   infinite value is not kept); NaN is what a garbled tag of an imported
   file leaves in a recipe. The inputs are chosen small enough for every
   intermediate value to stay below 2^31 millionths.                        *)

Infinity == -3

\* x * y for two numbers, in parts that stay below 2^31
Product(x, y) ==
    (x \div 1000) * (y \div 1000)
      + ((x \div 1000) * (y % 1000) + (x % 1000) * (y \div 1000)
           + ((x % 1000) * (y % 1000)) \div 1000) \div 1000

Finite(x) == x # NaN /\ x # Infinity

Abs(x) == IF x < 0 THEN 0 - x ELSE x

Signed(x, y, z) == IF (x < 0) = (y < 0) THEN z ELSE 0 - z

\* a binary operation of two numbers, value being its result for finite ones
Arith(x, y, value) ==
    IF x = NaN \/ y = NaN THEN NaN
    ELSE IF x = Infinity \/ y = Infinity THEN Infinity
    ELSE value

\* x + y
Add(x, y) == Arith(x, y, x + y)

\* x - y
Sub(x, y) == Arith(x, y, x - y)

\* x * y
Mul(x, y) ==
    IF (x = Infinity /\ y = 0) \/ (x = 0 /\ y = Infinity) THEN NaN
    ELSE Arith(x, y, Signed(x, y, Product(Abs(x), Abs(y))))

\* the six decimals of r / d for 0 <= r < d
RECURSIVE Fraction(_, _, _)
Fraction(r, d, k) ==
    IF k = 0 THEN 0
    ELSE ((r * 10) \div d) * Pow10(k - 1) + Fraction((r * 10) % d, d, k - 1)

\* x / d for x >= 0 and d > 0; a whole divisor divides at once and a
\* divisor above 200 is taken in thousandths
RECURSIVE Quotient(_, _)
Quotient(x, d) ==
    IF d % Micro = 0 THEN x \div (d \div Micro)
    ELSE IF d >= 200000000 THEN Quotient(x, d \div 1000) \div 1000
    ELSE (x \div d) * Micro + Fraction(x % d, d, 6)

\* x / y
Div(x, y) ==
    IF x = NaN \/ y = NaN THEN NaN
    ELSE IF x = Infinity THEN (IF y = Infinity THEN NaN ELSE Infinity)
    ELSE IF y = Infinity THEN 0
    ELSE IF y = 0 THEN (IF x = 0 THEN NaN ELSE Infinity)
    ELSE Signed(x, y, Quotient(Abs(x), Abs(y)))

\* x > y
Gt(x, y) ==
    /\ x # NaN
    /\ y # NaN
    /\ y # Infinity
    /\ (x = Infinity \/ x > y)

\* x <= y
Le(x, y) ==
    /\ x # NaN
    /\ y # NaN
    /\ x # Infinity
    /\ (y = Infinity \/ x <= y)

RECURSIVE Pow2(_)
Pow2(n) == IF n = 0 THEN 1 ELSE 2 * Pow2(n - 1)

\* the sum of r^j / j! for j from k on, term being r^(k-1) / (k-1)!
RECURSIVE ExpSeries(_, _, _)
ExpSeries(r, k, term) ==
    IF k > 12 \/ term = 0 THEN 0
    ELSE Product(term, r) \div k + ExpSeries(r, k + 1, Product(term, r) \div k)

\* Math.exp(x): x = n * ln 2 + r with 0 <= r < ln 2
MathExp(x) ==
    IF x = NaN THEN NaN
    ELSE IF x = Infinity THEN Infinity
    ELSE LET n == x \div 693147
             r == x - n * 693147
             s == Micro + ExpSeries(r, 1, Micro)
         IN  IF n >= 0 THEN s * Pow2(n)
             ELSE IF n < -30 THEN 0
             ELSE s \div Pow2(0 - n)

\* the sum of z^j / j for the odd j from k on, power being z^k
RECURSIVE LogSeries(_, _, _)
LogSeries(z, k, power) ==
    IF k > 13 \/ power = 0 THEN 0
    ELSE power \div k + LogSeries(z, k + 2, Product(Product(power, z), z))

\* ln x for x > 0: x = m * 2^n with 1 <= m < 2, ln m = 2 artanh((m-1)/(m+1))
RECURSIVE Log(_, _)
Log(x, n) ==
    IF x >= 2 * Micro THEN Log(x \div 2, n + 1)
    ELSE IF x < Micro THEN Log(x * 2, n - 1)
    ELSE n * 693147
           + 2 * LogSeries(Quotient(x - Micro, x + Micro), 1,
                           Quotient(x - Micro, x + Micro))

\* Math.pow(x, y) for x >= 0
MathPow(x, y) ==
    IF x = NaN \/ y = NaN THEN NaN
    ELSE IF y = 0 THEN Micro
    ELSE IF x = Infinity THEN Infinity
    ELSE IF x = 0 THEN 0
    ELSE MathExp(Mul(y, Log(x, 0)))

\* Math.round(x)
MathRound(x) ==
    IF Finite(x) THEN ((x + 500000) \div Micro) * Micro ELSE x


-----------------------------------------------------------------------------
(* normalizeUnit, calculateABV and calculateRecipeStats (calculations.ts).
   A unit is a text; an argument that may be undefined is a sequence of at
   most one value, and a field that may be undefined is a field the record
   may lack.                                                                *)

\* String.prototype.trim()
trim(t) ==
    LET inked == { i \in DOMAIN t : t[i] \notin WhiteSpace } IN
    IF inked = {} THEN <<>>
    ELSE SubSeq(t, MinOf(inked), CHOOSE i \in inked : \A j \in inked : j <= i)

\* String.prototype.startsWith(prefix)
startsWith(t, prefix) ==
    Len(t) >= Len(prefix) /\ SubSeq(t, 1, Len(prefix)) = prefix

\* q?.unit
unitOf(q) == IF "unit" \in DOMAIN q THEN <<q.unit>> ELSE <<>>

\* the tests of normalizeUnit on the lowercased and trimmed text, in order
unitToken(u) ==
    IF startsWith(u, <<"k", "g">>) \/ startsWith(u, <<"k", "i", "l", "o">>)
    THEN <<"k", "i", "l", "o", "g", "r", "a", "m", "s">>
    ELSE IF startsWith(u, <<"l", "b">>) \/ startsWith(u, <<"p", "o", "u", "n", "d">>)
    THEN <<"p", "o", "u", "n", "d", "s">>
    ELSE IF u \in { <<"g">>, <<"g", "r", "a", "m">>, <<"g", "r", "a", "m", "s">> }
    THEN <<"g", "r", "a", "m", "s">>
    ELSE IF u \in { <<"g", "r">>, <<"g", "r", "a", "i", "n">>,
                    <<"g", "r", "a", "i", "n", "s">> }
    THEN <<"g", "r", "a", "i", "n", "s">>
    ELSE IF startsWith(u, <<"o", "z">>) \/ startsWith(u, <<"o", "u", "n", "c", "e">>)
    THEN <<"o", "u", "n", "c", "e", "s">>
    ELSE IF startsWith(u, <<"l">>) /\ ~startsWith(u, <<"l", "b">>)
    THEN <<"l", "i", "t", "e", "r", "s">>
    ELSE IF startsWith(u, <<"g", "a", "l">>)
    THEN <<"g", "a", "l", "l", "o", "n", "s">>
    ELSE IF startsWith(u, <<"m", "i", "n">>)
    THEN <<"m", "i", "n", "u", "t", "e", "s">>
    ELSE u

normalizeUnit_noTrim(unit) ==
    IF unit = <<>> \/ unit[1] = <<>> THEN <<>>
    ELSE unitToken(toLowerCase(unit[1]))

normalizeUnit(unit) ==
    IF unit = <<>> \/ unit[1] = <<>> THEN <<>>
    ELSE unitToken(trim(toLowerCase(unit[1])))

\* !a.field for a number that may be undefined
Not(a, field) ==
    field \notin DOMAIN a \/ a[field] = 0 \/ a[field] = NaN

\* a.x?.y || dflt for a number
Path(a, x, y, dflt) ==
    IF x \in DOMAIN a /\ y \in DOMAIN a[x] THEN OrNum(a[x][y], dflt) ELSE dflt

calculateABV_noOrder(a) ==
    IF Not(a, "og") \/ Not(a, "fg") THEN 0
    ELSE Mul(Sub(a.og, a.fg), 131250000)

\* calculateABV(a.og, a.fg, a.isBottled, a.sugarG, a.volumeL), with the
\* defaults sugarG = 0 and volumeL = 1 of the parameters left undefined
calculateABV(a) ==
    IF Not(a, "og") \/ Not(a, "fg") \/ Le(a.og, a.fg) THEN 0
    ELSE IF /\ a.isBottled
            /\ Gt(FieldOr(a, "sugarG", 0), 0)
            /\ Gt(FieldOr(a, "volumeL", Micro), 0)
    THEN Add(Mul(Sub(a.og, a.fg), 131250000),
             Mul(Div(FieldOr(a, "sugarG", 0), FieldOr(a, "volumeL", Micro)), 50000))
    ELSE Mul(Sub(a.og, a.fg), 131250000)

\* batchSizeL
batchSizeL(recipe) ==
    IF normalizeUnit(IF "batch_size" \in DOMAIN recipe
                     THEN unitOf(recipe.batch_size) ELSE <<>>)
         = <<"l", "i", "t", "e", "r", "s">>
    THEN Path(recipe, "batch_size", "value", 0)
    ELSE Mul(Path(recipe, "batch_size", "value", 0), 3785410)

\* recipe.ingredients?.[list] ?? []
ingredientsOf(recipe, list) ==
    IF "ingredients" \in DOMAIN recipe /\ list \in DOMAIN recipe.ingredients
    THEN recipe.ingredients[list]
    ELSE <<>>

\* weightKg of the first forEach
weightKg(amount) ==
    LET unit == normalizeUnit(unitOf(amount)) IN
    IF unit = <<"p", "o", "u", "n", "d", "s">> THEN Mul(amount.value, 453592)
    ELSE IF unit = <<"g", "r", "a", "m", "s">> THEN Div(amount.value, 1000 * Micro)
    ELSE IF unit = <<"o", "u", "n", "c", "e", "s">>
    THEN Div(Mul(amount.value, 283495), 10 * Micro)
    ELSE amount.value

\* what one fermentable adds to totalPoints
pointsOf(f, liters, efficiency) ==
    IF "amount" \notin DOMAIN f THEN 0
    ELSE Div(Mul(Mul(weightKg(f.amount),
                     Mul(Mul(Sub(IF "yield" \in DOMAIN f
                                 THEN Path(f.yield, "potential", "value", 1037000)
                                 ELSE 1037000,
                                 Micro),
                             1000 * Micro),
                         8345400)),
                 efficiency),
             OrNum(liters, Micro))

\* weightLbs of the second forEach
weightLbs(amount) ==
    LET unit == normalizeUnit(unitOf(amount)) IN
    IF unit = <<"k", "i", "l", "o", "g", "r", "a", "m", "s">>
    THEN Mul(amount.value, 2204620)
    ELSE IF unit = <<"g", "r", "a", "m", "s">> THEN Div(amount.value, 453592000)
    ELSE IF unit = <<"o", "u", "n", "c", "e", "s">> THEN Div(amount.value, 16 * Micro)
    ELSE amount.value

\* what one fermentable adds to mcu
mcuOf(f, liters) ==
    IF "amount" \notin DOMAIN f THEN 0
    ELSE Div(Mul(weightLbs(f.amount), Path(f, "color", "value", 2 * Micro)),
             OrNum(Div(liters, 3785410), Micro))

\* weightG of the third forEach
weightG(amount) ==
    LET unit == normalizeUnit(unitOf(amount)) IN
    IF unit = <<"o", "u", "n", "c", "e", "s">> THEN Mul(amount.value, 28349500)
    ELSE IF unit = <<"k", "i", "l", "o", "g", "r", "a", "m", "s">>
    THEN Mul(amount.value, 1000 * Micro)
    ELSE IF unit = <<"p", "o", "u", "n", "d", "s">> THEN Mul(amount.value, 453592000)
    ELSE amount.value

BitterUses ==
    { <<"b", "o", "i", "l">>, <<"f", "i", "r", "s", "t", "_", "w", "o", "r", "t">>,
      <<"w", "h", "i", "r", "l", "p", "o", "o", "l">> }

\* alphaOverrides?.[h.name] !== undefined ? alphaOverrides[h.name]
\*                                        : (h.alpha_acid?.value || 5)
alphaOf(h, alphaOverrides) ==
    IF h.name \in DOMAIN alphaOverrides THEN alphaOverrides[h.name]
    ELSE Path(h, "alpha_acid", "value", 5 * Micro)

\* utilization of a hop
utilization(h, og) ==
    IF h.use = <<"w", "h", "i", "r", "l", "p", "o", "o", "l">>
    THEN Mul(Mul(Mul(1650000, MathPow(125, Sub(og, Micro))),
                 Div(Sub(Micro, MathExp(Mul(-40000, 10 * Micro))), 4150000)),
             500000)
    ELSE Mul(Mul(1650000, MathPow(125, Sub(og, Micro))),
             Div(Sub(Micro, MathExp(Mul(-40000, h.time.value))), 4150000))

ibuOf_anyUse(h, alphaOverrides, og, liters) ==
    IF "amount" \notin DOMAIN h \/ "time" \notin DOMAIN h THEN 0
    ELSE Div(Mul(Mul(Mul(alphaOf(h, alphaOverrides), weightG(h.amount)),
                     utilization(h, og)),
                 10 * Micro),
             OrNum(liters, Micro))

\* what one hop adds to ibu
ibuOf(h, alphaOverrides, og, liters) ==
    IF "amount" \notin DOMAIN h \/ "time" \notin DOMAIN h THEN 0
    ELSE IF h.use \in BitterUses
    THEN Div(Mul(Mul(Mul(alphaOf(h, alphaOverrides), weightG(h.amount)),
                     utilization(h, og)),
                 10 * Micro),
             OrNum(liters, Micro))
    ELSE 0

\* the sum of the numbers of a list, from the first on
RECURSIVE Total(_)
Total(terms) ==
    IF terms = <<>> THEN 0
    ELSE Add(Total(SubSeq(terms, 1, Len(terms) - 1)), terms[Len(terms)])

\* the sum a forEach or a reduce adds up, term(x) being what item x adds
Sum(list, term(_)) == Total([i \in 1..Len(list) |-> term(list[i])])

totalPoints(recipe) ==
    Sum(ingredientsOf(recipe, "fermentables"),
        LAMBDA f : pointsOf(f, batchSizeL(recipe),
                            Div(Path(recipe, "efficiency", "brewhouse", 75 * Micro),
                                100 * Micro)))

avgAttenuation(cultures) ==
    IF Len(cultures) > 0
    THEN Div(Sum(cultures, LAMBDA c : OrNum(FieldOr(c, "attenuation", 0), 75 * Micro)),
             Len(cultures) * Micro)
    ELSE 75 * Micro

originalGravity(recipe) == Add(Micro, Div(totalPoints(recipe), 1000 * Micro))

finalGravity(recipe, og) ==
    Add(Micro,
        Mul(Sub(og, Micro),
            Sub(Micro, Div(avgAttenuation(ingredientsOf(recipe, "cultures")),
                           100 * Micro))))

colorSRM(mcu) == IF Gt(mcu, 0) THEN Mul(1492200, MathPow(mcu, 685900)) ELSE 0

\* the returned object, og and fg being computed
statsOf(recipe, alphaOverrides, og, fg) ==
    [og |-> og,
     fg |-> fg,
     abv |-> calculateABV([og |-> og, fg |-> fg, isBottled |-> FALSE]),
     color |-> colorSRM(Sum(ingredientsOf(recipe, "fermentables"),
                            LAMBDA f : mcuOf(f, batchSizeL(recipe)))),
     ibu |-> MathRound(Sum(ingredientsOf(recipe, "hops"),
                           LAMBDA h : ibuOf(h, alphaOverrides, og, batchSizeL(recipe))))]

withGravity(recipe, alphaOverrides, og) ==
    statsOf(recipe, alphaOverrides, og, finalGravity(recipe, og))

\* alphaOverrides is a function of hop names, empty when it is undefined
calculateRecipeStats(recipe, alphaOverrides) ==
    withGravity(recipe, alphaOverrides, originalGravity(recipe))


-----------------------------------------------------------------------------
(* The functions of calculations.ts applied to arguments *)

UpperChar(c) ==
    IF \E i \in DOMAIN LowerCase : LowerCase[i] = c
    THEN UpperCase[CHOOSE i \in DOMAIN LowerCase : LowerCase[i] = c]
    ELSE c

\* the spellings of a unit, in lower case
Spellings ==
    { <<"k", "g">>, <<"k", "g", "s">>, <<"k", "i", "l", "o">>,
      <<"k", "i", "l", "o", "g", "r", "a", "m">>, <<"k", " ", "g">>,
      <<"l", "b">>, <<"l", "b", "s">>, <<"p", "o", "u", "n", "d">>,
      <<"p", "o", "u", "n", "d", "s">>, <<"p", "o", "u", "n">>,
      <<"g">>, <<"g", "r", "a", "m">>, <<"g", "r", "a", "m", "s">>,
      <<"g", "r">>, <<"g", "r", "a", "i", "n", "s">>, <<"g", "r", "a", "m", "m">>,
      <<"o", "z">>, <<"o", "u", "n", "c", "e", "s">>,
      <<"l">>, <<"l", "i", "t", "e", "r", "s">>, <<"l", "i", "t", "r", "e">>,
      <<"m", "l">>, <<"g", "a", "l">>, <<"g", "a", "l", "l", "o", "n", "s">>,
      <<"m", "i", "n">>, <<"m", "i", "n", "u", "t", "e", "s">>,
      <<"s", "t", "o", "n", "e">>, <<"f", "l", " ", "o", "z">>, <<>> }

\* a spelling in lower case, in upper case and with a capital
Cased(t) ==
    { t, [i \in 1..Len(t) |-> UpperChar(t[i])],
      [i \in 1..Len(t) |-> IF i = 1 THEN UpperChar(t[i]) ELSE t[i]] }

\* a text with white space before it, after it and around it
Padded(t) == { t, <<" ">> \o t, t \o <<"\t", "\n">>, <<" ", " ">> \o t \o <<" ">> }

\* the units handed to normalizeUnit: a text or undefined
UnitInputs ==
    {<<>>} \cup { <<p>> : p \in UNION { Padded(c) : c \in UNION { Cased(t) : t \in Spellings } } }

\* a field that may be left undefined, with the values it may hold
Optional(field, values) == {<<>>} \cup { field :> x : x \in values }

Gravities == { 0, NaN, 1010000, 1050000 }

\* the arguments of calculateABV
AbvInputs ==
    { Spread(Spread(Spread(Spread([isBottled |-> b], og), fg), sugarG), volumeL) :
        b \in BOOLEAN,
        og \in Optional("og", Gravities),
        fg \in Optional("fg", Gravities),
        sugarG \in Optional("sugarG", { 0, 120 * Micro, 0 - 5 * Micro }),
        volumeL \in Optional("volumeL", { 0, 20 * Micro }) }

\* batch sizes: 0 and 20 liters, 5.5 gallons, 20 without a unit
BatchInputs ==
    Optional("batch_size",
             { [unit |-> <<"l", "i", "t", "e", "r", "s">>, value |-> 0],
               [unit |-> <<"L">>, value |-> 20 * Micro],
               [unit |-> <<"g", "a", "l", "l", "o", "n", "s">>, value |-> 5500000],
               [value |-> 20 * Micro] })

\* fermentables: in kilograms, in pounds, without a unit, without an amount,
\* and with the NaN amount an <AMOUNT> that is no number leaves
\* (beerXmlService.ts:117)
FermentableArgs ==
    { [name |-> <<"P">>,
       amount |-> [unit |-> <<"k", "i", "l", "o", "g", "r", "a", "m", "s">>,
                   value |-> 2 * Micro],
       yield |-> [potential |-> [value |-> 1037000]],
       color |-> [value |-> 3500000]],
      [name |-> <<"M">>, amount |-> [unit |-> <<"l", "b">>, value |-> 3 * Micro]],
      [name |-> <<"W">>, amount |-> [value |-> 2 * Micro], color |-> [value |-> 10 * Micro]],
      [name |-> <<"X">>, color |-> [value |-> 3 * Micro]],
      [name |-> <<"N">>,
       amount |-> [unit |-> <<"k", "i", "l", "o", "g", "r", "a", "m", "s">>,
                   value |-> NaN],
       yield |-> [potential |-> [value |-> 1037000]],
       color |-> [value |-> 3500000]] }

Minutes(n) == [unit |-> <<"m", "i", "n", "u", "t", "e", "s">>, value |-> n * Micro]

\* hops of every use, in grams, ounces, kilograms and without a unit
HopArgs ==
    { [name |-> <<"C">>, use |-> <<"b", "o", "i", "l">>,
       amount |-> [unit |-> <<"g", "r", "a", "m", "s">>, value |-> 28 * Micro],
       alpha_acid |-> [value |-> 5500000], time |-> Minutes(60)],
      [name |-> <<"S">>, use |-> <<"d", "r", "y", "_", "h", "o", "p">>,
       amount |-> [unit |-> <<"o", "z">>, value |-> Micro],
       alpha_acid |-> [value |-> 12 * Micro], time |-> Minutes(1440)],
      [name |-> <<"T">>, use |-> <<"m", "a", "s", "h">>,
       amount |-> [unit |-> <<"g">>, value |-> 20 * Micro], time |-> Minutes(60)],
      [name |-> <<"H">>, use |-> <<"w", "h", "i", "r", "l", "p", "o", "o", "l">>,
       amount |-> [unit |-> <<"k", "g">>, value |-> 30000],
       alpha_acid |-> [value |-> 10 * Micro], time |-> Minutes(15)],
      [name |-> <<"F">>, use |-> <<"f", "i", "r", "s", "t", "_", "w", "o", "r", "t">>,
       amount |-> [value |-> 28 * Micro],
       alpha_acid |-> [value |-> 5500000], time |-> Minutes(60)] }

CultureArgs ==
    { <<>>,
      <<[name |-> <<"Y">>, attenuation |-> 80 * Micro]>>,
      <<[name |-> <<"Y">>, attenuation |-> 70 * Micro], [name |-> <<"Z">>]>> }

\* entry.measurements.measured_alpha: undefined, or an alpha per hop name
AlphaOverrides == { <<>>, (<<"C">> :> 8 * Micro) @@ (<<"S">> :> 15 * Micro) }

\* the recipes handed to calculateRecipeStats: every batch size with every
\* list of fermentables, and every list of hops with and without overrides
RecipeArgs ==
    { [recipe |-> Spread(Spread([name |-> <<"R">>,
                                 ingredients |-> [fermentables |-> fs, hops |-> hs,
                                                  cultures |-> cs]],
                                size), eff),
       alphaOverrides |-> <<>>] :
        size \in BatchInputs,
        eff \in Optional("efficiency", { [brewhouse |-> 70 * Micro] }),
        fs \in UpTo(FermentableArgs, MaxAdditions),
        cs \in CultureArgs,
        hs \in { <<>>, <<CHOOSE h \in HopArgs : h.name = <<"C">> >> } }
      \cup
    { [recipe |-> [name |-> <<"R">>,
                   batch_size |-> [unit |-> <<"l", "i", "t", "e", "r", "s">>,
                                   value |-> liters],
                   efficiency |-> [brewhouse |-> 75 * Micro],
                   ingredients |-> [fermentables |-> fs, hops |-> hs, cultures |-> <<>>]],
       alphaOverrides |-> overrides] :
        liters \in { 0, 20 * Micro },
        fs \in { <<>>, <<CHOOSE f \in FermentableArgs : f.name = <<"P">> >> },
        hs \in UpTo(HopArgs, MaxAdditions),
        overrides \in AlphaOverrides }
      \cup
    { [recipe |-> [name |-> <<"R">>], alphaOverrides |-> <<>>] }

CalcInputs ==
    { [fn |-> "normalizeUnit", unit |-> u] : u \in UnitInputs }
      \cup { [fn |-> "calculateABV", args |-> a] : a \in AbvInputs }
      \cup { [fn |-> "calculateRecipeStats", args |-> a] : a \in RecipeArgs }

CalcInit ==
    /\ AppInit
    /\ xmlDoc = Null
    /\ xmlResult = Null
    /\ exported = Null
    /\ xmlText = Null
    /\ NoBackup
    /\ calcIn \in CalcInputs
    /\ calcOut = <<>>
    /\ NoLoad
    /\ NoBrewLog

NormalizeUnit ==
    /\ calcIn.fn = "normalizeUnit"
    /\ calcOut = <<>>
    /\ calcOut' = <<normalizeUnit(calcIn.unit)>>
    /\ UNCHANGED <<appVars, xmlVars, backupVars, calcIn, remote, brewVars>>

CalculateABV ==
    /\ calcIn.fn = "calculateABV"
    /\ calcOut = <<>>
    /\ calcOut' = <<calculateABV(calcIn.args)>>
    /\ UNCHANGED <<appVars, xmlVars, backupVars, calcIn, remote, brewVars>>

CalculateRecipeStats ==
    /\ calcIn.fn = "calculateRecipeStats"
    /\ calcOut = <<>>
    /\ calcOut' = <<calculateRecipeStats(calcIn.args.recipe, calcIn.args.alphaOverrides)>>
    /\ UNCHANGED <<appVars, xmlVars, backupVars, calcIn, remote, brewVars>>

CalcNext ==
    \/ NormalizeUnit
    \/ CalculateABV
    \/ CalculateRecipeStats

CalcSpec == CalcInit /\ [][CalcNext]_vars

-----------------------------------------------------------------------------
(* The remote data load next to the import flow *)

\* a recipe and a library entry of the account, with ids of the remote store
RemoteRecipe ==
    [id |-> 91, user_id |-> User, status |-> "private", name |-> <<"r">>,
     ingredients |-> [fermentables |-> <<>>, hops |-> <<>>, cultures |-> <<>>]]

RemoteItem ==
    [id |-> 92, user_id |-> User, status |-> "private", name |-> <<"s">>,
     type |-> "mash_profile", grain_temp |-> 40]

\* what fetchAppData returns: the four collections of the account, each of
\* them possibly empty
RemoteData ==
    { [recipes |-> rs, brewLogs |-> <<>>, tastingNotes |-> <<>>, library |-> lib] :
        rs \in { <<>>, <<RemoteRecipe>> },
        lib \in { <<>>, <<RemoteItem>>, EXAMPLES } }

\* loadData has read localStorage and awaits supabaseService.fetchAppData
RaceInit ==
    /\ AppInit
    /\ xmlDoc = Null
    /\ xmlResult = Null
    /\ exported = Null
    /\ xmlText = Null
    /\ NoBackup
    /\ NoCalc
    /\ remote \in RemoteData
    /\ NoBrewLog

\* loadData after the await: remoteData overwrites the local state
LoadData ==
    /\ remote # Null
    /\ recipes' = remote.recipes
    /\ brewLogs' = remote.brewLogs
    /\ tastingNotes' = remote.tastingNotes
    /\ library' = remote.library
    /\ remote' = Null
    /\ NoHandlerHistory
    /\ UNCHANGED <<importStatus, importQueue, currentDuplicate, timers, inflight,
                   nextId, queued, batch, startLib, log, saves, xmlVars,
                   calcVars, brewVars, backup, saved>>

RaceNext ==
    \/ Next
    \/ LoadData

RaceSpec == RaceInit /\ [][RaceNext]_vars

-----------------------------------------------------------------------------
(* The BrewLog component: the state entry and activeTab, and its controls *)

\* new Date().toISOString().split('T')[0], and a date before it
Today == "2026-11-03"

Earlier == "2026-10-20"

\* !prev.field: the field is undefined or the empty string
Unset(prev, field) == field \notin DOMAIN prev \/ prev[field] = ""

\* !prev.bottling?.date
NoBottlingDate(prev) ==
    "bottling" \notin DOMAIN prev \/ Unset(prev.bottling, "date")

\* { ...prev.bottling!, date: today }
bottlingOn(prev, date) ==
    Spread(IF "bottling" \in DOMAIN prev THEN prev.bottling ELSE <<>>, [date |-> date])

\* as handleStatusChange, writing the date of the stage whether it is set or not
handleStatusChange_always(newStatus, prev) ==
    Spread(prev,
        CASE newStatus = "fermenting" ->
                [status |-> newStatus, fermentationDate |-> Today]
          [] newStatus = "lagering" ->
                [status |-> newStatus, lageringDate |-> Today]
          [] newStatus = "bottled" ->
                [status |-> newStatus, bottling |-> bottlingOn(prev, Today)]
          [] OTHER -> [status |-> newStatus])

\* updatedEntry = { ...prev, ...update } of handleStatusChange
handleStatusChange(newStatus, prev) ==
    Spread(prev,
        CASE newStatus = "fermenting" /\ Unset(prev, "fermentationDate") ->
                [status |-> newStatus, fermentationDate |-> Today]
          [] newStatus = "lagering" /\ Unset(prev, "lageringDate") ->
                [status |-> newStatus, lageringDate |-> Today]
          [] newStatus = "bottled" /\ NoBottlingDate(prev) ->
                [status |-> newStatus, bottling |-> bottlingOn(prev, Today)]
          [] OTHER -> [status |-> newStatus])

\* the tab handleStatusChange and the effect run at mount select for a status
tabOf(status) ==
    CASE status = "fermenting" -> "ferment"
      [] status = "lagering" -> "lager"
      [] status = "bottled" -> "bottle"
      [] OTHER -> "brew"

Tabs == {"brew", "ferment", "lager", "bottle"}

\* !entry.measurements.actual_fg: undefined, NaN or 0
NoFinalGravity(e) ==
    \/ "actual_fg" \notin DOMAIN e.measurements
    \/ e.measurements.actual_fg \in {NaN, 0}

\* the entry useState creates when no initialLog is given
FreshEntry ==
    [id |-> 1, recipeId |-> FirstId, date |-> Today, brewDate |-> Today,
     status |-> "brewing", notes |-> <<>>,
     measurements |-> [actual_og |-> 1050000],
     bottling |-> [target_co2 |-> 2400000, sugar_type |-> "table_sugar"]]

\* logs saved earlier, one per status, and a log from a restored backup
\* that has no bottling record
InitialLogs ==
    { Spread(FreshEntry, [id |-> 2, date |-> Earlier, brewDate |-> Earlier]),
      Spread(FreshEntry, [id |-> 2, date |-> Earlier, brewDate |-> Earlier,
                          status |-> "fermenting", fermentationDate |-> Earlier]),
      Spread(FreshEntry, [id |-> 2, date |-> Earlier, brewDate |-> Earlier,
                          status |-> "lagering", fermentationDate |-> Earlier,
                          lageringDate |-> Earlier,
                          measurements |-> [actual_og |-> 1050000, actual_fg |-> 1010000]]),
      Spread(FreshEntry, [id |-> 2, date |-> Earlier, brewDate |-> Earlier,
                          status |-> "bottled", fermentationDate |-> Earlier,
                          lageringDate |-> Earlier,
                          measurements |-> [actual_og |-> 1050000, actual_fg |-> 1010000],
                          bottling |-> [target_co2 |-> 2400000, sugar_type |-> "table_sugar",
                                        date |-> Earlier]]),
      [id |-> 2, recipeId |-> FirstId, date |-> Earlier, brewDate |-> Earlier,
       status |-> "fermenting", notes |-> <<>>,
       measurements |-> [actual_og |-> 1050000, actual_fg |-> 1012000]] }

\* what the inputs of the ferment, lager and bottle tabs deliver
GravityInputs == {NaN, 0, 1010000}

DateInputs == {"", Earlier, Today}

\* the component is mounted, on a new log or on a saved one
BrewLogInit ==
    /\ AppInit
    /\ xmlDoc = Null
    /\ xmlResult = Null
    /\ exported = Null
    /\ xmlText = Null
    /\ tastingNotes = <<>>
    /\ backup = Null
    /\ saved = Null
    /\ NoCalc
    /\ NoLoad
    /\ \E initialLog \in InitialLogs \cup {Null} :
          /\ entry = IF initialLog = Null THEN FreshEntry ELSE initialLog
          /\ brewLogs = IF initialLog = Null THEN <<>> ELSE <<initialLog>>
    /\ activeTab = tabOf(entry.status)

BrewLogRest ==
    <<appVars, xmlVars, calcVars, remote, tastingNotes, backup, saved>>

\* one of the four process tabs is clicked
SetActiveTab(tab) ==
    /\ entry # Null
    /\ activeTab' = tab
    /\ UNCHANGED <<entry, brewLogs, BrewLogRest>>

\* handleStatusChange(newStatus): the entry is updated and autosaved
\* (onUpdate is handleUpdateBrewLog), and the tab of the status is selected
HandleStatusChange(newStatus) ==
    /\ entry' = handleStatusChange(newStatus, entry)
    /\ brewLogs' = handleUpdateBrewLog(brewLogs, entry')
    /\ activeTab' = tabOf(newStatus)
    /\ UNCHANGED BrewLogRest

\* the next-step button of the brew tab
StartFermenting ==
    /\ entry # Null
    /\ activeTab = "brew"
    /\ entry.status = "brewing"
    /\ HandleStatusChange("fermenting")

\* the next-step button of the ferment tab
StartLagering ==
    /\ entry # Null
    /\ activeTab = "ferment"
    /\ entry.status = "fermenting"
    /\ HandleStatusChange("lagering")

\* the next-step button of the lager tab
GoToBottling ==
    /\ entry # Null
    /\ activeTab = "lager"
    /\ entry.status = "lagering"
    /\ activeTab' = "bottle"
    /\ UNCHANGED <<entry, brewLogs, BrewLogRest>>

\* the button of the bottle tab, disabled while there is no actual_fg
FinishBottling ==
    /\ entry # Null
    /\ activeTab = "bottle"
    /\ entry.status # "bottled"
    /\ ~NoFinalGravity(entry)
    /\ HandleStatusChange("bottled")

\* the actual_fg input of the ferment tab
SetActualFg ==
    /\ entry # Null
    /\ activeTab = "ferment"
    /\ \E fg \in GravityInputs :
          entry' = Spread(entry,
                      [measurements |-> Spread(entry.measurements, [actual_fg |-> fg])])
    /\ UNCHANGED <<activeTab, brewLogs, BrewLogRest>>

\* the lagering date input of the lager tab
SetLageringDate ==
    /\ entry # Null
    /\ activeTab = "lager"
    /\ \E date \in DateInputs : entry' = Spread(entry, [lageringDate |-> date])
    /\ UNCHANGED <<activeTab, brewLogs, BrewLogRest>>

\* the bottling date input of the bottle tab
SetBottlingDate ==
    /\ entry # Null
    /\ activeTab = "bottle"
    /\ \E date \in DateInputs :
          entry' = Spread(entry, [bottling |-> bottlingOn(entry, date)])
    /\ UNCHANGED <<activeTab, brewLogs, BrewLogRest>>

\* the manual save button: triggerAutoSave(entry)
SaveEntry ==
    /\ entry # Null
    /\ brewLogs' = handleUpdateBrewLog(brewLogs, entry)
    /\ UNCHANGED <<entry, activeTab, BrewLogRest>>

\* onSaveAndExit(entry): handleSaveAndExitBrewLog stores the entry and
\* leaves the view, the component is unmounted
SaveAndExit ==
    /\ entry # Null
    /\ brewLogs' = handleUpdateBrewLog(brewLogs, entry)
    /\ entry' = Null
    /\ activeTab' = "brew"
    /\ UNCHANGED BrewLogRest

\* onEditLog of the brew history: the component is mounted on a saved log
OnEditLog ==
    /\ entry = Null
    /\ \E i \in DOMAIN brewLogs :
          /\ entry' = brewLogs[i]
          /\ activeTab' = tabOf(brewLogs[i].status)
    /\ UNCHANGED <<brewLogs, BrewLogRest>>

BrewLogNext ==
    \/ \E tab \in Tabs : SetActiveTab(tab)
    \/ StartFermenting
    \/ StartLagering
    \/ GoToBottling
    \/ FinishBottling
    \/ SetActualFg
    \/ SetLageringDate
    \/ SetBottlingDate
    \/ SaveEntry
    \/ SaveAndExit
    \/ OnEditLog

BrewLogSpec == BrewLogInit /\ [][BrewLogNext]_vars

TypeOK ==
    /\ importStatus \in ImportStatus
    /\ Len(timers) <= 1
    /\ currentDuplicate # Null => currentDuplicate.type = "library"

-----------------------------------------------------------------------------
(* Vocabulary of the properties *)

Key(name, type) == <<toLowerCase(name), type>>

LibKeys(lib) == { Key(lib[i].name, lib[i].type) : i \in DOMAIN lib }

RecipeNames(rs) == { toLowerCase(rs[i].name) : i \in DOMAIN rs }

LibIds(lib) == { lib[i].id : i \in DOMAIN lib }

IngredientKeys(recipe) ==
    { Key(recipe.ingredients.fermentables[i].name, "fermentable") :
          i \in DOMAIN recipe.ingredients.fermentables }
    \cup { Key(recipe.ingredients.hops[i].name, "hop") :
          i \in DOMAIN recipe.ingredients.hops }
    \cup { Key(recipe.ingredients.cultures[i].name, "culture") :
          i \in DOMAIN recipe.ingredients.cultures }

\* the (lowercased name, type) pairs that log entry e put into the library
InsertedLibKeys(e) ==
    LET it == batch[e.idx] IN
    IF e.op = "commit" /\ it.type = "library" THEN { Key(it.data.name, it.data.type) }
    ELSE IF e.op = "commit" THEN IngredientKeys(it.data)
    ELSE IF e.op = "copy" THEN { Key(copyName(it.data.name), it.data.type) }
    ELSE IF e.op = "overwrite" THEN { Key(it.data.name, it.data.type) }
    ELSE {}

\* the lowercased recipe names that log entry e put into the recipe list
InsertedRecipeNames(e) ==
    LET it == batch[e.idx] IN
    IF e.op = "commit" /\ it.type = "recipe" THEN { toLowerCase(it.data.name) } ELSE {}

\* what the duplicate check of an item looks for
ItemIsInserted(it, e) ==
    IF it.type = "recipe"
    THEN toLowerCase(it.data.name) \in InsertedRecipeNames(e)
    ELSE Key(it.data.name, it.data.type) \in InsertedLibKeys(e)

-----------------------------------------------------------------------------
(* C1 *)

-----------------------------------------------------------------------------
(* C2 *)

\* what the log says of item i of the batch
OpsOf(i) == { log[k].op : k \in { n \in DOMAIN log : log[n].idx = i } }

ConflictsOf(i) ==
    Cardinality({ k \in DOMAIN log : log[k].idx = i /\ log[k].op = "conflict" })

\* items i < j are the first two library items of the batch with this
\* (name, type)
IsPair(i, j) ==
    /\ i < j
    /\ batch[i].type = "library"
    /\ batch[j].type = "library"
    /\ batch[i].data.name = batch[j].data.name
    /\ batch[i].data.type = batch[j].data.type
    /\ \A m \in 1..(j - 1) :
          (batch[m].type = "library" /\ batch[m].data.name = batch[i].data.name
             /\ batch[m].data.type = batch[i].data.type) => m = i

ItemKey(i) == Key(batch[i].data.name, batch[i].data.type)

\* the first is committed without a pause, the second pauses exactly once
FirstCommitsSecondPausesOnce(i, j) ==
    /\ OpsOf(i) \subseteq {"commit"}
    /\ ConflictsOf(j) <= 1
    /\ "commit" \notin OpsOf(j)
    /\ OpsOf(j) # {} => ConflictsOf(j) = 1 /\ OpsOf(i) = {"commit"}

-----------------------------------------------------------------------------
(* C3 *)

\* the library entries with a given id
EntriesWithId(id) == { p \in DOMAIN library : library[p].id = id }

\* C3 as stated: when two conflicts on the same (name, type) were both
\* answered with copy, the two copies are two library entries whose names
\* differ from each other and from the imported names, and whose ids differ
\* from each other and from every id the library held before.
C3_CopiesDistinct ==
    \A k1 \in DOMAIN log : \A k2 \in DOMAIN log :
        (/\ k1 < k2
         /\ log[k1].op = "copy"
         /\ log[k2].op = "copy"
         /\ ItemKey(log[k1].idx) = ItemKey(log[k2].idx))
        => /\ log[k1].id # log[k2].id
           /\ log[k1].id \notin LibIds(startLib)
           /\ log[k2].id \notin LibIds(startLib)
           /\ \A p \in EntriesWithId(log[k1].id) : \A q \in EntriesWithId(log[k2].id) :
                 /\ library[p].name # library[q].name
                 /\ library[p].name # batch[log[k1].idx].data.name
                 /\ library[q].name # batch[log[k2].idx].data.name

-----------------------------------------------------------------------------
(* C4 *)

\* C4 as stated: no two library entries share (lowercased name, type).
C4_LibraryKeysUnique ==
    \A p \in DOMAIN library : \A q \in DOMAIN library :
        p # q => Key(library[p].name, library[p].type) # Key(library[q].name, library[q].type)

-----------------------------------------------------------------------------
(* Vocabulary of the step properties *)

\* the log entries the step wrote: a step that queues a new batch starts
\* the log afresh, any other step appends
Delta ==
    IF queued' # queued THEN log' ELSE SubSeq(log', Len(log) + 1, Len(log'))

\* the batch from item i on
Rest(i) == SubSeq(batch', i, Len(batch'))

\* the duplicate test of the spec, against the collections before the step
DupInState(it) ==
    IF it.type = "recipe"
    THEN toLowerCase(it.data.name) \in RecipeNames(recipes)
    ELSE Key(it.data.name, it.data.type) \in LibKeys(library)

\* the step is the caller's answer a to the exposed conflict
Answered(a) ==
    /\ queued' = queued
    /\ Len(Delta) = 1
    /\ Delta[1].op = a

RecipeIds(rs) == { rs[i].id : i \in DOMAIN rs }

-----------------------------------------------------------------------------
(* C5 *)

C5_Step ==
    \A n \in DOMAIN Delta :
        LET e == Delta[n]
            it == batch'[e.idx]
        IN  (e.op \in {"silent", "commit", "conflict"} /\ it.type = "recipe" /\ DupInState(it))
            => /\ e.op = "silent"
               \* the queue advances by one
               /\ IF n < Len(Delta)
                  THEN Delta[n + 1].idx = e.idx + 1
                  ELSE importQueue' = Rest(e.idx + 1)
               \* the recipe is not added, and nothing else changes on its account
               /\ it.data.id \notin RecipeIds(recipes')
               /\ Delta[Len(Delta)].op # "commit" => recipes' = recipes /\ library' = library
               /\ Len(recipes') <= Len(recipes) + 1

-----------------------------------------------------------------------------
(* C6 *)

C6_Step ==
    \A n \in DOMAIN Delta :
        LET e == Delta[n]
            it == batch'[e.idx]
        IN  (e.op \in {"silent", "commit", "conflict"} /\ ~DupInState(it))
            => /\ e.op = "commit"
               /\ IF it.type = "library"
                  THEN /\ recipes' = recipes
                       /\ Len(library') = Len(library) + 1
                       /\ SubSeq(library', 1, Len(library)) = library
                       /\ library'[Len(library')].id \notin LibIds(library)
                       /\ \A f \in DOMAIN it.data :
                             library'[Len(library')][f] = it.data[f]
                  ELSE /\ Len(recipes') = Len(recipes) + 1
                       /\ SubSeq(recipes', 1, Len(recipes)) = recipes
                       /\ recipes'[Len(recipes')].id = it.data.id
                       /\ recipes'[Len(recipes')].name = it.data.name
                       /\ SubSeq(library', 1, Len(library)) = library
               /\ importQueue' = Rest(e.idx + 1)
               /\ currentDuplicate' = Null
               /\ importStatus' = "resolving"
               /\ timers' = << [queue |-> importQueue', recipes |-> recipes',
                                lib |-> library'] >>

-----------------------------------------------------------------------------
(* C7 *)

-----------------------------------------------------------------------------
(* C8 *)

\* C8: the answer cancel empties the queue, clears the conflict and sets the
\* status to idle in one step, schedules nothing, and leaves the recipe list
\* and the library as they were, so that everything earlier items of the
\* import inserted is still there.
C8_CancelDiscardsRest ==
    [][Answered("cancel") =>
        /\ importQueue' = <<>>
        /\ currentDuplicate' = Null
        /\ importStatus' = "idle"
        /\ timers' = <<>>
        /\ recipes' = recipes
        /\ library' = library
        /\ \A k \in DOMAIN log :
              /\ InsertedLibKeys(log[k]) \subseteq LibKeys(library')
              /\ InsertedRecipeNames(log[k]) \subseteq RecipeNames(recipes')]_vars

\* an import was cancelled with items left in the queue, after it had
\* committed a recipe and a library item
C8_Witness ==
    /\ log # <<>>
    /\ log[Len(log)].op = "cancel"
    /\ log[Len(log)].idx < Len(batch)
    /\ importQueue = <<>>
    /\ importStatus = "idle"
    /\ \E k \in DOMAIN log : log[k].op = "commit" /\ log[k].id \in LibIds(library)

-----------------------------------------------------------------------------
(* C9 *)

\* C9: the answer skip removes the head of the queue and nothing else: the
\* recipe list and the library are unchanged, the conflict is cleared, and a
\* processQueue call for the rest of the queue is pending.
C9_SkipDropsHead ==
    [][Answered("skip") =>
        /\ importQueue # <<>>
        /\ importQueue[1] = currentDuplicate
        /\ importQueue' = Tail(importQueue)
        /\ recipes' = recipes
        /\ library' = library
        /\ currentDuplicate' = Null
        /\ importStatus' = "resolving"
        /\ timers' = << [queue |-> Tail(importQueue), recipes |-> recipes,
                         lib |-> library] >>]_vars

\* a conflict was skipped and the item after it has been processed
C9_Witness ==
    \E k \in DOMAIN log :
        /\ log[k].op = "skip"
        /\ k < Len(log)
        /\ log[k + 1].idx = log[k].idx + 1
        /\ log[k + 1].op = "commit"

-----------------------------------------------------------------------------
(* C10 *)

Matches(item, dup) ==
    Key(item.name, item.type) = Key(dup.data.name, dup.data.type)

\* C10: the answer overwrite keeps the number and order of the library
\* entries; an entry that matches the conflicting item's (lowercased name,
\* type) keeps its id and otherwise consists of the imported fields (and
\* the user id); every other entry is unchanged; at least one entry matches.
C10_OverwriteKeepsId ==
    [][Answered("overwrite") =>
        /\ Len(library') = Len(library)
        /\ \E p \in DOMAIN library : Matches(library[p], currentDuplicate)
        /\ \A p \in DOMAIN library :
              IF Matches(library[p], currentDuplicate)
              THEN /\ library'[p].id = library[p].id
                   /\ DOMAIN library'[p] = DOMAIN currentDuplicate.data \cup {"id", "user_id"}
                   /\ \A f \in DOMAIN currentDuplicate.data :
                         library'[p][f] = currentDuplicate.data[f]
              ELSE library'[p] = library[p]]_vars

\* the example mash profile S (id 4) has been overwritten by the imported s:
\* same id, imported name and grain_temp
C10_Witness ==
    /\ \E k \in DOMAIN log : log[k].op = "overwrite"
    /\ \E p \in DOMAIN library :
          /\ library[p].id = 4
          /\ library[p].name = <<"s">>
          /\ library[p].grain_temp = 30

-----------------------------------------------------------------------------
(* C11 *)

\* the positions of the entries of lib with the given type and lowercased name
Matching(lib, name, type) ==
    { p \in DOMAIN lib : Key(lib[p].name, lib[p].type) = Key(name, type) }

\* the ingredients ings of a committed recipe are linked: each libraryId is
\* the id of an entry of libAfter with the ingredient's type and lowercased
\* name; where libBefore had such an entry its id is used and no entry with
\* that key is added, otherwise the id is one libBefore did not have and
\* libAfter has exactly one entry with that key
Linked(ings, type, libBefore, libAfter) ==
    \A i \in DOMAIN ings :
        /\ "libraryId" \in DOMAIN ings[i]
        /\ \E p \in Matching(libAfter, ings[i].name, type) :
              libAfter[p].id = ings[i].libraryId
        /\ IF Matching(libBefore, ings[i].name, type) # {}
           THEN /\ \E p \in Matching(libBefore, ings[i].name, type) :
                      libBefore[p].id = ings[i].libraryId
                /\ Matching(libAfter, ings[i].name, type)
                      = Matching(libBefore, ings[i].name, type)
           ELSE /\ ings[i].libraryId \notin LibIds(libBefore)
                /\ Cardinality(Matching(libAfter, ings[i].name, type)) = 1

C11_Step ==
    \A n \in DOMAIN Delta :
        LET e == Delta[n]
            it == batch'[e.idx]
        IN  (e.op = "commit" /\ it.type = "recipe")
            => LET r == recipes'[Len(recipes')]
                   ing == r.ingredients
               IN  /\ r.id = it.data.id
                   /\ Linked(ing.fermentables, "fermentable", library, library')
                   /\ Linked(ing.hops, "hop", library, library')
                   /\ Linked(ing.cultures, "culture", library, library')
                   \* the entries that were there are kept, and every added
                   \* entry is one that an ingredient without a match needed
                   /\ SubSeq(library', 1, Len(library)) = library
                   /\ \A p \in (Len(library) + 1)..Len(library') :
                         /\ Key(library'[p].name, library'[p].type) \in IngredientKeys(it.data)
                         /\ Matching(library, library'[p].name, library'[p].type) = {}
                         /\ library'[p].id \notin LibIds(library)

-----------------------------------------------------------------------------
(* C12 *)

\* C12: once the import status has left idle it returns to idle with an
\* empty queue, when every pending asynchronous step happens and every
\* exposed conflict is answered.
C12_ReturnsToIdle ==
    (importStatus # "idle") ~> (importStatus = "idle" /\ importQueue = <<>>)

-----------------------------------------------------------------------------
(* C13 *)

\* the status before a handler ran, followed by the values the handler
\* passed to setImportStatus, in the order of the calls
StatusPath == <<importStatus>> \o statusLog'

\* every change of value along StatusPath is one of the given edges, and the
\* status after the handler is the last value of the path
FollowsEdges(edges) ==
    /\ \A i \in 1..(Len(StatusPath) - 1) :
          StatusPath[i] # StatusPath[i + 1]
             => <<StatusPath[i], StatusPath[i + 1]>> \in edges
    /\ importStatus' = StatusPath[Len(StatusPath)]

\* the changes of status the handlers make: handleConfirmDemoImport idle ->
\* fetching -> parsing and, from its catch branch, fetching -> idle;
\* handleFileImport idle -> parsing; startImportFlow parsing -> resolving and,
\* for an empty queue, parsing -> idle; processQueue and resolveConflict
\* resolving -> idle
StatusEdges ==
    { <<"idle", "fetching">>, <<"fetching", "parsing">>, <<"fetching", "idle">>,
      <<"idle", "parsing">>, <<"parsing", "resolving">>, <<"parsing", "idle">>,
      <<"resolving", "idle">> }

\* C13 as stated: the import status changes only along idle -> fetching ->
\* parsing -> resolving -> idle.
C13_Original ==
    [][FollowsEdges({ <<"idle", "fetching">>, <<"fetching", "parsing">>,
                      <<"parsing", "resolving">>, <<"resolving", "idle">> })]_vars

\* C13: the import status changes only along idle -> fetching, fetching ->
\* parsing, parsing -> resolving, resolving -> idle, and along idle ->
\* parsing (a file import has no fetching phase), fetching -> idle (a fetch
\* failed) and parsing -> idle (nothing to import).
C13_StatusEdges ==
    [][FollowsEdges(StatusEdges)]_vars

\* a file import went from parsing through resolving to idle in the handler
\* of the load event: all it held were recipes that were already there
C13_Witness ==
    /\ statusLog = <<"resolving", "idle">>
    /\ importStatus = "idle"
    /\ log # <<>>

-----------------------------------------------------------------------------
(* C14 *)

\* C14: a handler whose startImportFlow call builds an empty queue shows the
\* alert "No data found ..." and nothing else, sets the status to idle
\* without setting resolving, schedules nothing, exposes no conflict, and
\* leaves the queue, the recipe list and the library as they were; no other
\* handler shows that alert.
C14_NoDataFound ==
    [][/\ started' = 0 =>
            /\ alerts' = <<NoDataFound>>
            /\ importStatus' = "idle"
            /\ \A i \in DOMAIN statusLog' : statusLog'[i] # "resolving"
            /\ UNCHANGED <<importQueue, recipes, library, timers, currentDuplicate>>
       /\ started' # 0 => \A i \in DOMAIN alerts' : alerts'[i] # NoDataFound]_vars

\* an import that delivered nothing, after an earlier import added a recipe
\* and library entries
C14_Witness ==
    /\ started = 0
    /\ alerts = <<NoDataFound>>
    /\ recipes # <<>>
    /\ Len(library) > Len(EXAMPLES)

-----------------------------------------------------------------------------
(* C15 *)

\* entries of the library were rewritten in place: the same number of
\* entries, not the same entries
LibraryRewritten == Len(library') = Len(library) /\ library' # library

\* C15: the answer overwrite for a library item, and any step that rewrites
\* library entries in place (the save of an edited entry), leave the recipe
\* list as it was, the numbers the recipes copied from the entry included.
C15_RecipesKeepCopies ==
    [][(Answered("overwrite") \/ LibraryRewritten) => recipes' = recipes]_vars

\* a recipe has a fermentable that was set from the example malt P (id 1)
\* when its colour was 16; the colour of P has since been edited to 99, and
\* the last import overwrote a library entry
C15_Witness ==
    /\ \E i \in DOMAIN recipes :
          \E j \in DOMAIN recipes[i].ingredients.fermentables :
             LET f == recipes[i].ingredients.fermentables[j] IN
             /\ Field(f, "libraryId") = 1
             /\ f.color = 16
             /\ f.name = <<"P">>
    /\ \E p \in DOMAIN library : library[p].id = 1 /\ library[p].color = 99
    /\ \E k \in DOMAIN log : log[k].op = "overwrite"

-----------------------------------------------------------------------------
(* C16, C17: document-global declarations and recipe-scoped elements *)

\* the elements of a tag that lie in no RECIPE element, in document order
RECURSIVE Outside(_, _)
Outside(children, tag) ==
    IF children = <<>>
    THEN <<>>
    ELSE (IF Head(children).tag = "RECIPE"
          THEN <<>>
          ELSE (IF Head(children).tag = tag THEN <<Head(children)>> ELSE <<>>)
                 \o Outside(Head(children).children, tag))
           \o Outside(Tail(children), tag)

Range(list) == { list[i] : i \in DOMAIN list }

Count(list, x) == Cardinality({ i \in DOMAIN list : list[i] = x })

NamesOf(items) == [i \in 1..Len(items) |-> items[i].name]

DeclaredNames(tag) ==
    LET els == Outside(xmlDoc.children, tag) IN
    [i \in 1..Len(els) |-> getVal(els[i], "NAME")]

\* the global list of the import result that corresponds to a tag
GlobalList ==
    [FERMENTABLE |-> "fermentables", HOP |-> "hops", YEAST |-> "cultures",
     MISC |-> "miscs", STYLE |-> "styles", MASH |-> "mashes"]

Parsed == xmlResult # Null

\* C16: each FERMENTABLE, HOP, YEAST, MISC, STYLE and MASH element declared
\* outside any RECIPE element appears in the corresponding global list of the
\* import result.
C16_GlobalsReported ==
    Parsed =>
        \A tag \in ItemTags :
            \A name \in Range(DeclaredNames(tag)) :
                Count(DeclaredNames(tag), name)
                    <= Count(NamesOf(xmlResult[GlobalList[tag]]), name)

\* C17: no element that lies inside a RECIPE element, direct child or nested
\* in a record set of the recipe, is reported in a global list of the import
\* result.
C17_RecipeScopedNotGlobal ==
    Parsed =>
        \A tag \in ItemTags :
            \A name \in Range(NamesOf(xmlResult[GlobalList[tag]])) :
                Count(NamesOf(xmlResult[GlobalList[tag]]), name)
                    <= Count(DeclaredNames(tag), name)

-----------------------------------------------------------------------------
(* C18: export of a recipe and import of the exported text *)

\* batchSizeL, weightKg and weightG of calculateRecipeStats
Liters(size) ==
    IF size.unit = "liters" THEN size.value ELSE Product(size.value, 3785410)

Kilograms(amount) ==
    IF amount.unit = "pounds" THEN Product(amount.value, 453592) ELSE amount.value

Grams(amount) ==
    IF amount.unit = "ounces" THEN Product(amount.value, 28349500) ELSE amount.value

Reimported == exported # Null /\ exported.kind = "recipe" /\ xmlResult # Null

SameFermentable(f, g) ==
    /\ g.name = f.name
    /\ Kilograms(g.amount) = Kilograms(f.amount)
    /\ g.color.value = f.color.value

SameHop(h, g) ==
    /\ g.name = h.name
    /\ Grams(g.amount) = Grams(h.amount)
    /\ g.alpha_acid.value = h.alpha_acid.value
    /\ g.time.value = h.time.value

SameLists(a, b, Same(_, _)) ==
    /\ Len(a) = Len(b)
    /\ \A i \in DOMAIN a : Same(a[i], b[i])

SameRecipe(r, g) ==
    /\ g.name = r.name
    /\ Liters(g.batch_size) = Liters(r.batch_size)
    /\ SameLists(r.ingredients.fermentables, g.ingredients.fermentables, SameFermentable)
    /\ SameLists(r.ingredients.hops, g.ingredients.hops, SameHop)

\* C18: the recipe read from the exported text has the name, the batch size,
\* the fermentable weights and colors and the hop amounts, alpha values and
\* times of the exported recipe, whatever its names and its units are.
C18_RoundTrip ==
    Reimported =>
        /\ Len(xmlResult.recipes) = 1
        /\ SameRecipe(exported.recipe, xmlResult.recipes[1])

-----------------------------------------------------------------------------
(* C19: free text in the exported text *)

FreeTextTags == {"NAME", "CATEGORY", "BREWER", "USE", "TYPE"}

\* the texts of the free-text elements of a document, in document order
EmbeddedTexts(doc) ==
    LET ds == DescOf(doc.children, doc.tag)
        F[i \in 0..Len(ds)] ==
            IF i = 0 THEN <<>>
            ELSE IF ds[i].el.tag \in FreeTextTags
                 THEN Append(F[i - 1], textContent(ds[i].el))
                 ELSE F[i - 1]
    IN  F[Len(ds)]

\* the values the export functions embed as text, in the order of the parts
RecipeTexts(recipe) ==
    <<recipe.name, typeText(recipe.type)>>
      \o (IF "style" \in DOMAIN recipe
          THEN <<recipe.style.name, FieldOr(recipe.style, "category", <<>>)>>
          ELSE <<>>)
      \o <<OrText(FieldOr(recipe, "author", <<>>),
                  <<"b", "r", "e", "w", "b", "i", "n", "d", "r">>)>>
      \o Flatten([i \in 1..Len(recipe.ingredients.fermentables) |->
                    <<recipe.ingredients.fermentables[i].name>>])
      \o Flatten([i \in 1..Len(recipe.ingredients.hops) |->
                    <<recipe.ingredients.hops[i].name, recipe.ingredients.hops[i].use>>])
      \o Flatten([i \in 1..Len(recipe.ingredients.miscellaneous) |->
                    <<recipe.ingredients.miscellaneous[i].name,
                      recipe.ingredients.miscellaneous[i].type,
                      recipe.ingredients.miscellaneous[i].use>>])

LibraryTexts(ingredients) ==
    Flatten([i \in 1..Len(filterType(ingredients, "misc")) |->
               <<filterType(ingredients, "misc")[i].name,
                 OrText(FieldOr(filterType(ingredients, "misc")[i], "misc_type", <<>>),
                        <<"O", "t", "h", "e", "r">>),
                 OrText(FieldOr(filterType(ingredients, "misc")[i], "misc_use", <<>>),
                        <<"B", "o", "i", "l">>)>>])
      \o Flatten([i \in 1..Len(filterType(ingredients, "style")) |->
                    <<filterType(ingredients, "style")[i].name,
                      FieldOr(filterType(ingredients, "style")[i], "category", <<>>)>>])

FieldValues ==
    IF exported.kind = "recipe"
    THEN RecipeTexts(exported.recipe)
    ELSE LibraryTexts(exported.library)

\* every special character of the text is the ampersand of an entity
NoRawSpecial(text) ==
    \A i \in DOMAIN text :
        (text[i].kind = "char" /\ text[i].v \in Special)
            => (text[i].v = "&" /\ EntityAt(text, i) # {})

Exported == xmlText # Null

\* C19: in the text of exportToBeerXml and exportLibraryToBeerXml no special
\* character of a field value stands raw between tags, and every free-text
\* value is escaped once: reading the entities once gives the value back.
C19_EscapedOnce ==
    Exported =>
        /\ NoRawSpecial(xmlText)
        /\ EmbeddedTexts(parseFromString(xmlText)) = FieldValues

\* a recipe named "&amp;" with a style, a hop and a misc was exported
C19_Witness ==
    /\ Exported
    /\ exported.kind = "recipe"
    /\ "style" \in DOMAIN exported.recipe
    /\ exported.recipe.name = <<"&", "a", "m", "p", ";">>
    /\ Len(exported.recipe.ingredients.hops) > 0
    /\ Len(exported.recipe.ingredients.miscellaneous) > 0

-----------------------------------------------------------------------------
(* C20: restore of an exported backup *)

Collections ==
    [recipes |-> recipes, brewLogs |-> brewLogs,
     tastingNotes |-> tastingNotes, library |-> library]

JustRestored == alerts = <<RestoreDone>>

\* C20: when the backup written in state S has been restored, the recipes,
\* the brew logs, the tasting notes and the library are those of S, whatever
\* they were before the restore.
C20_RestoreGivesSaved == JustRestored => Collections = saved

-----------------------------------------------------------------------------
(* C21, C22: normalizeUnit and calculateABV *)

\* fn has been called with calcIn and has returned calcOut[1]
Called(fn) == "fn" \in DOMAIN calcIn /\ calcIn.fn = fn /\ calcOut # <<>>

\* the text of the unit, '' for undefined
Spelled == IF calcIn.unit = <<>> THEN <<>> ELSE calcIn.unit[1]

\* the text without its surrounding white space, in lower case
Bare == trim(toLowerCase(Spelled))

\* the spellings the normalizer knows
Recognized(u) ==
    \/ \E prefix \in { <<"k", "g">>, <<"k", "i", "l", "o">>, <<"l">>,
                       <<"p", "o", "u", "n", "d">>, <<"o", "z">>,
                       <<"o", "u", "n", "c", "e">>, <<"g", "a", "l">>,
                       <<"m", "i", "n">> } : startsWith(u, prefix)
    \/ u \in { <<"g">>, <<"g", "r", "a", "m">>, <<"g", "r", "a", "m", "s">>,
               <<"g", "r">>, <<"g", "r", "a", "i", "n">>,
               <<"g", "r", "a", "i", "n", "s">> }

\* C21: normalizeUnit gives kilograms for every text that starts with kg or
\* kilo, whatever its letter case and the white space around it; pounds, and
\* so never liters, for every text that starts with lb or pound; and a text
\* it does not know in lower case and without the surrounding white space.
C21_UnitsNormalized ==
    Called("normalizeUnit") =>
        /\ (startsWith(Bare, <<"k", "g">>) \/ startsWith(Bare, <<"k", "i", "l", "o">>))
              => calcOut[1] = <<"k", "i", "l", "o", "g", "r", "a", "m", "s">>
        /\ (startsWith(Bare, <<"l", "b">>) \/ startsWith(Bare, <<"p", "o", "u", "n", "d">>))
              => calcOut[1] = <<"p", "o", "u", "n", "d", "s">>
        /\ ~Recognized(Bare) => calcOut[1] = Bare

\* C21 witness: a spelling of kilograms with capitals and white space around
\* it has been normalized
C21_Witness ==
    /\ Called("normalizeUnit")
    /\ Spelled # toLowerCase(Spelled)
    /\ toLowerCase(Spelled) # Bare
    /\ startsWith(Bare, <<"k", "i", "l", "o">>)
    /\ calcOut[1] = <<"k", "i", "l", "o", "g", "r", "a", "m", "s">>

\* the priming sugar counts: the log is bottled, sugar and volume are above 0
Primed(a) ==
    /\ a.isBottled
    /\ Gt(FieldOr(a, "sugarG", 0), 0)
    /\ Gt(FieldOr(a, "volumeL", Micro), 0)

\* a gravity is absent or 0, or og is not greater than fg
NoAlcohol(a) ==
    \/ "og" \notin DOMAIN a
    \/ "fg" \notin DOMAIN a
    \/ a.og = 0
    \/ a.fg = 0
    \/ ~Gt(a.og, a.fg)

\* C22: calculateABV returns 0 when a gravity is absent or 0 or og is not
\* greater than fg, bottled with priming sugar or not; otherwise it returns
\* (og - fg) * 131.25, plus (sugarG / volumeL) * 0.05 exactly when isBottled
\* is true and sugarG and volumeL are above 0.
C22_AbvFormula ==
    Called("calculateABV") =>
        LET a == calcIn.args IN
        IF NoAlcohol(a) THEN calcOut[1] = 0
        ELSE IF Primed(a)
        THEN calcOut[1] = Add(Mul(Sub(a.og, a.fg), 131250000),
                              Mul(Div(a.sugarG, FieldOr(a, "volumeL", Micro)), 50000))
        ELSE calcOut[1] = Mul(Sub(a.og, a.fg), 131250000)

\* C22 witness: the ABV of a bottled log with priming sugar has been
\* computed and lies above (og - fg) * 131.25
C22_Witness ==
    /\ Called("calculateABV")
    /\ ~NoAlcohol(calcIn.args)
    /\ Primed(calcIn.args)
    /\ calcOut[1] > Mul(Sub(calcIn.args.og, calcIn.args.fg), 131250000)

-----------------------------------------------------------------------------
(* C23: the hops that count for the IBU *)

\* the hops of the recipe handed to calculateRecipeStats
HopsIn == ingredientsOf(calcIn.args.recipe, "hops")

Steeped == { <<"d", "r", "y", "_", "h", "o", "p">>, <<"m", "a", "s", "h">> }

Boiled ==
    { <<"b", "o", "i", "l">>, <<"f", "i", "r", "s", "t", "_", "w", "o", "r", "t">>,
      <<"w", "h", "i", "r", "l", "p", "o", "o", "l">> }

\* the recipe with the boil, first wort and whirlpool hops only
BoiledOnly(recipe) ==
    [recipe EXCEPT !.ingredients.hops = SelectSeq(@, LAMBDA h : h.use \in Boiled)]

\* C23: the IBU of calculateRecipeStats is 0 for a recipe whose hops all
\* have the use dry_hop or mash, whatever their amounts, times, alpha
\* values and overrides; the IBU of any recipe is that of its boil, first
\* wort and whirlpool hops alone.
C23_SteepedHopsNoIbu ==
    (Called("calculateRecipeStats") /\ "ingredients" \in DOMAIN calcIn.args.recipe) =>
        /\ (\A i \in DOMAIN HopsIn : HopsIn[i].use \in Steeped) => calcOut[1].ibu = 0
        /\ calcOut[1].ibu =
              calculateRecipeStats(BoiledOnly(calcIn.args.recipe),
                                   calcIn.args.alphaOverrides).ibu

\* C23 witness: the IBU of a recipe with a dry hop that has an alpha
\* override and a mash hop, and no other hop, has been computed as 0
C23_Witness ==
    /\ Called("calculateRecipeStats")
    /\ "ingredients" \in DOMAIN calcIn.args.recipe
    /\ Len(HopsIn) = 2
    /\ HopsIn[1].use = <<"d", "r", "y", "_", "h", "o", "p">>
    /\ HopsIn[1].name \in DOMAIN calcIn.args.alphaOverrides
    /\ HopsIn[2].use = <<"m", "a", "s", "h">>
    /\ calcIn.args.recipe.batch_size.value > 0
    /\ calcOut[1].ibu = 0

-----------------------------------------------------------------------------
(* C24: recipes without ingredients and recipes with a batch size of 0 *)

RecipeIn == calcIn.args.recipe

\* the recipe has no fermentable, no hop and no culture
NoIngredients ==
    /\ ingredientsOf(RecipeIn, "fermentables") = <<>>
    /\ ingredientsOf(RecipeIn, "hops") = <<>>
    /\ ingredientsOf(RecipeIn, "cultures") = <<>>

\* the batch size is 0 or absent
NoVolume ==
    "batch_size" \in DOMAIN RecipeIn => RecipeIn.batch_size.value = 0

StatFields == {"og", "fg", "abv", "color", "ibu"}

\* C24: for a recipe without fermentables, hops and cultures
\* calculateRecipeStats returns og = 1, fg = 1, abv = 0, color = 0 and
\* ibu = 0, whatever the batch size; for a recipe with ingredients and a
\* batch size of 0 no result is NaN, infinite or negative.
C24_DegenerateStats ==
    Called("calculateRecipeStats") =>
        /\ NoIngredients =>
              calcOut[1] = [og |-> Micro, fg |-> Micro, abv |-> 0, color |-> 0, ibu |-> 0]
        /\ (NoVolume /\ ~NoIngredients) =>
              \A k \in StatFields : Finite(calcOut[1][k]) /\ calcOut[1][k] >= 0

-----------------------------------------------------------------------------
(* C25: fields of the import whose tag is absent or holds no number *)

\* the tag holds a number: its text starts with a digit
HoldsNumber(el, tag) ==
    /\ getVal(el, tag) # <<>>
    /\ getVal(el, tag)[1] \in { Digits[i] : i \in DOMAIN Digits }

\* an absent or garbled tag has given 0 times factor
DefaultsToZero(el, tag, value) == ~HoldsNumber(el, tag) => value = 0

\* an absent tag has given the empty string
DefaultsToEmpty(el, tag, value) ==
    getElementsByTagName(el, tag) = <<>> => value = <<>>

RecipeEls == Els(getElementsByTagName(xmlDoc, "RECIPE"))

HopEls(r) == Els(getElementsByTagName(r, "HOP"))

\* C25: parseBeerXml returns a result for every document; in every recipe
\* of the result a numeric field whose tag is absent or holds a text that
\* is no number is 0, and a text field whose tag is absent is the empty
\* string.
C25_MissingFieldsDefault ==
    Parsed =>
        /\ DOMAIN xmlResult = {"recipes", "fermentables", "hops", "cultures", "miscs",
                               "waters", "styles", "equipments", "mashes"}
        /\ Len(xmlResult.recipes) = Len(RecipeEls)
        /\ \A i \in DOMAIN RecipeEls :
              /\ DefaultsToEmpty(RecipeEls[i], "NAME", xmlResult.recipes[i].name)
              /\ DefaultsToEmpty(RecipeEls[i], "BREWER", xmlResult.recipes[i].author)
              /\ DefaultsToZero(RecipeEls[i], "BATCH_SIZE",
                                xmlResult.recipes[i].batch_size.value)
              /\ DefaultsToZero(RecipeEls[i], "BOIL_TIME",
                                xmlResult.recipes[i].boil_time.value)
              /\ \A j \in DOMAIN HopEls(RecipeEls[i]) :
                    /\ DefaultsToZero(HopEls(RecipeEls[i])[j], "AMOUNT",
                                      xmlResult.recipes[i].ingredients.hops[j].amount.value)
                    /\ DefaultsToZero(HopEls(RecipeEls[i])[j], "TIME",
                                      xmlResult.recipes[i].ingredients.hops[j].time.value)

-----------------------------------------------------------------------------
(* C26: quantities without a unit *)

\* the quantity of a record, with the unit given to it when it has none
WithUnit(item, field, unit) ==
    IF field \in DOMAIN item /\ "unit" \notin DOMAIN item[field]
    THEN Spread(item, field :> Spread(item[field], [unit |-> unit]))
    ELSE item

AllWithUnit(list, unit) == [i \in 1..Len(list) |-> WithUnit(list[i], "amount", unit)]

\* the recipe with liters, kilograms and grams written where a unit is absent
Canonical(recipe) ==
    Spread(WithUnit(recipe, "batch_size", <<"l", "i", "t", "e", "r", "s">>),
           IF "ingredients" \in DOMAIN recipe
           THEN [ingredients |->
                    [recipe.ingredients EXCEPT
                        !.fermentables =
                            AllWithUnit(@, <<"k", "i", "l", "o", "g", "r", "a", "m", "s">>),
                        !.hops = AllWithUnit(@, <<"g", "r", "a", "m", "s">>)]]
           ELSE <<>>)

\* C26: calculateRecipeStats takes a batch size without unit as liters, a
\* fermentable amount without unit as kilograms, for the gravity and for
\* the color, and a hop amount without unit as grams.
C26_AbsentUnitCanonical ==
    Called("calculateRecipeStats") =>
        calcOut[1] = calculateRecipeStats(Canonical(RecipeIn), calcIn.args.alphaOverrides)

-----------------------------------------------------------------------------
(* C27 *)

-----------------------------------------------------------------------------
(* C28 *)

\* what takes an item off the queue, one item at a time
Disposals == {"commit", "silent", "skip", "overwrite", "copy"}

\* the number of times item i of the batch was disposed of: by a step that
\* took it off the queue, or by a cancel at or before it
Disposed(i) ==
    Cardinality({ k \in DOMAIN log : log[k].idx = i /\ log[k].op \in Disposals })
    + Cardinality({ k \in DOMAIN log : log[k].idx <= i /\ log[k].op = "cancel" })

\* the items of the batch that are no longer queued
Gone == Len(batch) - Len(importQueue)

\* the queue is the batch without its first Gone items; these were disposed
\* of once each, the queued ones not yet; and no flow is left with items
\* when the status is back to idle
EachDisposedOnce ==
    /\ Len(importQueue) <= Len(batch)
    /\ importQueue = SubSeq(batch, Gone + 1, Len(batch))
    /\ \A i \in DOMAIN batch : Disposed(i) = IF i <= Gone THEN 1 ELSE 0
    /\ \A i \in DOMAIN batch :
          Cardinality({ k \in DOMAIN log : log[k].idx = i /\ log[k].op = "commit" }) <= 1
    /\ importStatus = "idle" => importQueue = <<>>

\* the recipe items among the items the step disposed of
RecipesDisposed ==
    Cardinality({ n \in DOMAIN Delta :
                    /\ Delta[n].op \in Disposals
                    /\ batch'[Delta[n].idx].type = "recipe" })

C28_Step ==
    /\ importStatus = "resolving" => Len(importQueue') <= Len(importQueue)
    /\ Len(recipes') - Len(recipes) <= RecipesDisposed
    /\ Len(recipes') >= Len(recipes)

\* C28: every item of the batch leaves the queue once, by one of commit,
\* silent skip, skip, overwrite, copy or the cancel that discards it; none
\* is committed twice; no step taken while resolving lengthens the queue;
\* and a step adds at most as many recipes to the recipe list as it disposed
\* of recipe items, so that an import adds at most one recipe per recipe
\* item of its queue.
C28_DisposedOnce ==
    /\ []EachDisposedOnce
    /\ [][C28_Step]_vars

\* C28 witness: an import of three items has ended; one item was committed,
\* a duplicate recipe was skipped silently, and a conflict was answered
C28_Witness ==
    /\ importStatus = "idle"
    /\ Len(batch) = MaxQueued
    /\ importQueue = <<>>
    /\ { log[k].op : k \in DOMAIN log } \cap {"commit", "silent"} = {"commit", "silent"}
    /\ { log[k].op : k \in DOMAIN log } \cap {"skip", "overwrite", "copy"} # {}

-----------------------------------------------------------------------------
(* C29 *)

\* a step of the import flow: any step but the completion of the load
FlowStep == remote' = remote

\* the recipes and the library entries of before the step are still there
NothingUndone ==
    /\ RecipeIds(recipes) \subseteq RecipeIds(recipes')
    /\ LibIds(library) \subseteq LibIds(library')

\* an item the step committed was no duplicate in the collections as they
\* were when the step was taken
CommittedFresh ==
    \A n \in DOMAIN Delta :
        Delta[n].op = "commit" => ~DupInState(batch'[Delta[n].idx])

\* C29: with a remote data load that completes at any moment of an import,
\* no step of the import flow removes a recipe or a library entry that the
\* collections hold, and no step commits an item that is a duplicate in the
\* collections as they are at that step.
C29_NoStaleSnapshot == [][FlowStep => (NothingUndone /\ CommittedFresh)]_vars

-----------------------------------------------------------------------------
(* C30 *)

\* the place of a status in the order brewing, fermenting, lagering, bottled
Rank(status) ==
    CASE status = "brewing" -> 1
      [] status = "fermenting" -> 2
      [] status = "lagering" -> 3
      [] status = "bottled" -> 4

\* a final gravity has been recorded in log e: actual_fg is a number
HasFinalGravity(e) ==
    /\ "actual_fg" \in DOMAIN e.measurements
    /\ e.measurements.actual_fg # NaN

\* the stage dates of log e that are set
StageDates(e) ==
    { <<f, e[f]>> : f \in { g \in {"fermentationDate", "lageringDate"} : ~Unset(e, g) } }
    \cup IF NoBottlingDate(e) THEN {} ELSE { <<"bottling", e.bottling.date>> }

\* log before, log after of one step
Forward(before, after) ==
    /\ Rank(after.status) >= Rank(before.status)
    /\ before.status = "bottled" => after.status = "bottled"
    /\ (after.status = "bottled" /\ before.status # "bottled") =>
          HasFinalGravity(after)

\* a change of the status leaves the stage dates that were set as they were
DatesKept(before, after) ==
    after.status # before.status => StageDates(before) \subseteq StageDates(after)

C30_Step ==
    /\ (entry # Null /\ entry' # Null) =>
          (Forward(entry, entry') /\ DatesKept(entry, entry'))
    /\ \A i \in DOMAIN brewLogs : \A j \in DOMAIN brewLogs' :
          brewLogs[i].id = brewLogs'[j].id => Forward(brewLogs[i], brewLogs'[j])
    /\ (entry = Null /\ entry' # Null) => entry' \in Range(brewLogs)

\* C30: in every step of the BrewLog controls, for the open entry and for
\* the stored log, the status does not move backwards in the order brewing,
\* fermenting, lagering, bottled; a bottled log stays bottled; a log becomes
\* bottled only with a recorded actual_fg; and a step that changes the
\* status of the open entry leaves every stage date that was set in it as
\* it was. A log that is opened is the stored one.
C30_StatusForward == [][C30_Step]_vars

\* C30 witness: the log that was started new has been bottled; it has the
\* lagering and bottling dates that were entered before the status changes
\* and the fermentation date of the status change
C30_Witness ==
    /\ entry # Null
    /\ entry.id = FreshEntry.id
    /\ entry.status = "bottled"
    /\ StageDates(entry) = { <<"fermentationDate", Today>>,
                             <<"lageringDate", Earlier>>,
                             <<"bottling", Earlier>> }
    /\ brewLogs = <<Spread(entry, [user_id |-> User])>>

====
